---- MODULE Spec2Model ----
(***************************************************************************)
(* Model of the CVA IPP Revenue & Capture Lab: the aligner                 *)
(* (DataSources.alignData), the computation engine (Compute) and the       *)
(* analysis workflow (App.runAnalysis).                                    *)
(*                                                                         *)
(* JavaScript numbers are modelled as exact rationals [num, den] in lowest *)
(* terms; den = 0 encodes the non-finite values (num = 1: Infinity,        *)
(* num = -1: -Infinity, num = 0: NaN).  Rounding error of IEEE doubles and *)
(* the sign of zero are not modelled.                                      *)
(***************************************************************************)
EXTENDS Integers, Sequences, FiniteSets, TLC

VARIABLES
    prices,        \* alignData: the prices argument
    pvProfile,     \* alignData: the pvProfile argument
    aligned,       \* alignData: the returned array (Null before the call)
    data,          \* Compute: the aligned series handed to the engine
    options,       \* calculateKPIs: {floorPrice, ppaPrice}
    kpis,          \* result of calculateKPIs (Null before the call)
    kpiError,      \* message of the Error thrown by calculateKPIs (Null if none)
    batteryConfig, \* simulateBattery: {powerMW, energyMWh, efficiency, oneCyclePerDay}
    batteryResults,      \* result of simulateBattery (Null before the call)
    representativeWeeks, \* result of findRepresentativeWeeks (Null before the call)
    sim,           \* simulateBattery: the locals of the dispatch walk
    app,           \* App.runAnalysis: window.AppState, UI.state and the runs
    tzOffset,      \* hours the local time zone of the runtime is ahead of UTC
    worker         \* the Cloudflare worker: the requests it is handling

vars == <<prices, pvProfile, aligned, data, options, kpis, kpiError,
          batteryConfig, batteryResults, representativeWeeks, sim, app, tzOffset, worker>>

alignVars == <<prices, pvProfile, aligned>>
computeVars == <<data, options, kpis, kpiError, batteryConfig, batteryResults,
                 representativeWeeks>>

\* null / undefined; an array held in a variable is wrapped as [array |-> s]
Null == [null |-> TRUE]

Arr(s) == [array |-> s]

-----------------------------------------------------------------------------
(* Numbers *)

Abs(x) == IF x < 0 THEN 0 - x ELSE x

Sign(x) == IF x > 0 THEN 1 ELSE IF x < 0 THEN -1 ELSE 0

RECURSIVE GCD(_, _)
GCD(a, b) == IF b = 0 THEN a ELSE GCD(b, a % b)

\* The number n/d; n/0 is Infinity, -Infinity or NaN as in JavaScript.
Rat(n, d) ==
    IF d = 0 THEN [num |-> Sign(n), den |-> 0]
    ELSE LET g == GCD(Abs(n), Abs(d))
         IN [num |-> Sign(n) * Sign(d) * (Abs(n) \div g), den |-> Abs(d) \div g]

R(n) == Rat(n, 1)

NaN == Rat(0, 0)

IsNaN(x) == x.den = 0 /\ x.num = 0

IsFinite(x) == x.den # 0

RAdd(x, y) ==
    IF IsNaN(x) \/ IsNaN(y) THEN NaN
    ELSE IF ~IsFinite(x) /\ ~IsFinite(y) THEN (IF x.num = y.num THEN x ELSE NaN)
    ELSE IF ~IsFinite(x) THEN x
    ELSE IF ~IsFinite(y) THEN y
    ELSE Rat(x.num * y.den + y.num * x.den, x.den * y.den)

RNeg(x) == [num |-> 0 - x.num, den |-> x.den]

RSub(x, y) == RAdd(x, RNeg(y))

RMul(x, y) == Rat(x.num * y.num, x.den * y.den)

RDiv(x, y) == RMul(x, Rat(y.den, y.num))

RLt(x, y) ==
    IF IsNaN(x) \/ IsNaN(y) THEN FALSE
    ELSE IF ~IsFinite(x) /\ ~IsFinite(y) THEN x.num < y.num
    ELSE x.num * y.den < y.num * x.den

RGt(x, y) == RLt(y, x)

RLe(x, y) == ~IsNaN(x) /\ ~IsNaN(y) /\ ~RLt(y, x)

RGe(x, y) == RLe(y, x)

\* Math.min and Math.max of two numbers
RMin(x, y) == IF IsNaN(x) \/ IsNaN(y) THEN NaN ELSE IF RLt(y, x) THEN y ELSE x

RMax(x, y) == IF IsNaN(x) \/ IsNaN(y) THEN NaN ELSE IF RLt(x, y) THEN y ELSE x

\* Math.floor, Math.ceil and Math.round (round half up)
RFloor(x) == IF IsFinite(x) THEN R(x.num \div x.den) ELSE x

RCeil(x) == IF IsFinite(x) THEN R(0 - ((0 - x.num) \div x.den)) ELSE x

\* Mutant of RRound: the fraction is cut off
RRound_Floor(x) == RFloor(x)

\* Math.round: the nearest integer, a half rounded up
RRound(x) == RFloor(RAdd(x, Rat(1, 2)))

\* Math.round(x * k) / k
RoundTo(x, k) == RDiv(RRound(RMul(x, R(k))), R(k))

\* Math.sqrt on the squares of rationals (the only arguments the model draws)
ISqrt(n) == CHOOSE k \in 0..n : k * k = n

RSqrt(x) ==
    IF IsNaN(x) \/ x.num < 0 THEN NaN
    ELSE IF ~IsFinite(x) THEN x
    ELSE Rat(ISqrt(x.num), ISqrt(x.den))

\* values.reduce((a, b) => a + b, 0); exact addition is associative, so the sum
\* is computed by halves
RECURSIVE RSum(_)
RSum(s) ==
    IF Len(s) = 0 THEN R(0)
    ELSE IF Len(s) = 1 THEN s[1]
    ELSE RAdd(RSum(SubSeq(s, 1, Len(s) \div 2)), RSum(SubSeq(s, Len(s) \div 2 + 1, Len(s))))

Range(s) == {s[i] : i \in DOMAIN s}

\* Array.prototype.sort with comparator (a, b) => key(a) - key(b): the stable
\* ascending order of the indices of keys
RECURSIVE SortIdx(_, _)
SortIdx(keys, n) ==
    IF n = 0 THEN <<>>
    ELSE LET prev == SortIdx(keys, n - 1)
             pos == Cardinality({i \in DOMAIN prev : ~RLt(keys[n], keys[prev[i]])})
         IN SubSeq(prev, 1, pos) \o <<n>> \o SubSeq(prev, pos + 1, n - 1)

\* Mutant of SortByKey: the array is left in its order
SortByKey_Unsorted(s, keys) == s

SortByKey(s, keys) ==
    LET order == SortIdx(keys, Len(s))
    IN [i \in DOMAIN s |-> s[order[i]]]

-----------------------------------------------------------------------------
(* DataSources.alignData *)

\* forEach(p => map.set(p.timestamp, p[field])): a later point overwrites
RECURSIVE MapOf(_, _)
MapOf(points, field) ==
    IF points = <<>> THEN <<>>
    ELSE LET rest == MapOf(SubSeq(points, 1, Len(points) - 1), field)
             p == points[Len(points)]
         IN [ts \in DOMAIN rest \cup {p.timestamp} |->
                IF ts = p.timestamp THEN p[field] ELSE rest[ts]]

\* Mutant of SetOf: the concatenated array is iterated without deduplication
SetOf_NoDedup(s) == s

\* new Set([...]): the distinct elements in order of first occurrence
RECURSIVE SetOf(_)
SetOf(s) ==
    IF Len(s) <= 1 THEN s
    ELSE LET left == SetOf(SubSeq(s, 1, Len(s) \div 2))
             right == SetOf(SubSeq(s, Len(s) \div 2 + 1, Len(s)))
             seen == Range(left)
         IN left \o SelectSeq(right, LAMBDA x : x \notin seen)

Timestamps(points) == [i \in DOMAIN points |-> points[i].timestamp]

\* Mutant of AlignLoop: a record is pushed when either value is present
RECURSIVE AlignLoop_Either(_, _, _)
AlignLoop_Either(allTimestamps, priceMap, pvMap) ==
    IF allTimestamps = <<>> THEN <<>>
    ELSE LET rest == AlignLoop_Either(SubSeq(allTimestamps, 1, Len(allTimestamps) - 1),
                                      priceMap, pvMap)
             ts == allTimestamps[Len(allTimestamps)]
         IN Append(rest, [timestamp |-> ts,
                          price |-> IF ts \in DOMAIN priceMap THEN priceMap[ts] ELSE Null,
                          output |-> IF ts \in DOMAIN pvMap THEN pvMap[ts] ELSE Null,
                          date |-> ts])

\* the loop over allTimestamps pushing the records that have both values
RECURSIVE AlignLoop(_, _, _)
AlignLoop(allTimestamps, priceMap, pvMap) ==
    IF allTimestamps = <<>> THEN <<>>
    ELSE LET rest == AlignLoop(SubSeq(allTimestamps, 1, Len(allTimestamps) - 1),
                               priceMap, pvMap)
             ts == allTimestamps[Len(allTimestamps)]
         IN IF ts \in DOMAIN priceMap /\ ts \in DOMAIN pvMap
            THEN Append(rest, [timestamp |-> ts, price |-> priceMap[ts],
                               output |-> pvMap[ts], date |-> ts])
            ELSE rest

SortByTimestamp(s) == SortByKey(s, [i \in DOMAIN s |-> R(s[i].timestamp)])

alignData(pr, pv) ==
    LET pvMap == MapOf(pv, "output")
        priceMap == MapOf(pr, "price")
        allTimestamps == SetOf(Timestamps(pr) \o Timestamps(pv))
    IN SortByTimestamp(AlignLoop(allTimestamps, priceMap, pvMap))

-----------------------------------------------------------------------------
(* Date: new Date(ts * 1000) is held as its time value in seconds since    *)
(* the epoch.  The local calendar is UTC shifted by tzOffset hours; the    *)
(* years 1969 to 1971 (365 days each) are modelled.                        *)

\* timestamps are epoch seconds; the series are hourly
HOUR == 3600

HOURS_PER_YEAR == 8760

CumDays == <<0, 31, 59, 90, 120, 151, 181, 212, 243, 273, 304, 334, 365>>

LocalHours(date) == (date \div HOUR) + tzOffset

UTCHours(date) == date \div HOUR

YearOfHours(h) == 1970 + (h \div HOURS_PER_YEAR)

DayOfYear(h) == (h % HOURS_PER_YEAR) \div 24

MonthOfHours(h) ==
    CHOOSE m \in 0..11 : CumDays[m + 1] <= DayOfYear(h) /\ DayOfYear(h) < CumDays[m + 2]

DayOfMonth(h) == DayOfYear(h) - CumDays[MonthOfHours(h) + 1] + 1

getFullYear(date) == YearOfHours(LocalHours(date))

getMonth(date) == MonthOfHours(LocalHours(date))

getHours(date) == LocalHours(date) % 24

\* date.toISOString().split('T')[0]: the UTC calendar date
ISODate(date) ==
    <<YearOfHours(UTCHours(date)), MonthOfHours(UTCHours(date)) + 1,
      DayOfMonth(UTCHours(date))>>

\* `${getFullYear()}-${String(getMonth() + 1).padStart(2, '0')}`
MonthKey(date) == <<getFullYear(date), getMonth(date) + 1>>

\* a.month.localeCompare(b.month) orders the keys by year, then month
MonthKeyOrder(key) == R(key[1] * 12 + key[2])

-----------------------------------------------------------------------------
(* Compute: utilities *)

Prices(d) == [i \in DOMAIN d |-> d[i].price]

Outputs(d) == [i \in DOMAIN d |-> d[i].output]

Weighted(d) == [i \in DOMAIN d |-> RMul(d[i].price, d[i].output)]

\* Mutant of calculateMean: the sum is divided by n - 1
calculateMean_Sample(values) ==
    IF Len(values) = 0 THEN R(0) ELSE RDiv(RSum(values), R(Len(values) - 1))

calculateMean(values) ==
    IF Len(values) = 0 THEN R(0) ELSE RDiv(RSum(values), R(Len(values)))

\* Mutant of percentile: the lower order statistic is returned without interpolation
percentile_NoInterp(sortedArr, p) ==
    IF Len(sortedArr) = 0 THEN R(0)
    ELSE sortedArr[RFloor(RMul(Rat(p, 100), R(Len(sortedArr) - 1))).num + 1]

percentile(sortedArr, p) ==
    IF Len(sortedArr) = 0 THEN R(0)
    ELSE LET idx == RMul(Rat(p, 100), R(Len(sortedArr) - 1))
             lower == RFloor(idx)
             upper == RCeil(idx)
         IN IF lower = upper THEN sortedArr[lower.num + 1]
            ELSE RAdd(RMul(sortedArr[lower.num + 1], RSub(upper, idx)),
                      RMul(sortedArr[upper.num + 1], RSub(idx, lower)))

\* Math.min(...values) and Math.max(...values)
RECURSIVE MinOf(_)
MinOf(values) ==
    IF Len(values) = 0 THEN Rat(1, 0)
    ELSE IF Len(values) = 1 THEN values[1]
    ELSE RMin(MinOf(SubSeq(values, 1, Len(values) \div 2)),
              MinOf(SubSeq(values, Len(values) \div 2 + 1, Len(values))))

RECURSIVE MaxOf(_)
MaxOf(values) ==
    IF Len(values) = 0 THEN Rat(-1, 0)
    ELSE IF Len(values) = 1 THEN values[1]
    ELSE RMax(MaxOf(SubSeq(values, 1, Len(values) \div 2)),
              MaxOf(SubSeq(values, Len(values) \div 2 + 1, Len(values))))

\* the records of d at the indices where keys[i] = key, in order
Group(d, keys, key) ==
    LET idx == SelectSeq([i \in DOMAIN d |-> i], LAMBDA i : keys[i] = key)
    IN [k \in DOMAIN idx |-> d[idx[k]]]

\* a Map from key to the array of the records with that key, filled by
\* forEach: its values in insertion order of the keys
GroupBy(d, keys) ==
    LET order == SetOf(keys)
    IN [k \in DOMAIN order |-> [key |-> order[k], rows |-> Group(d, keys, order[k])]]

MonthGroups(d) == GroupBy(d, [i \in DOMAIN d |-> MonthKey(d[i].date)])

\* Mutant of NegativeHours: the hours without production are not excluded
NegativeHours_AnyOutput(d) == SelectSeq(d, LAMBDA r : RLt(r.price, R(0)))

\* data.filter(d => d.price < 0 && d.output > 0)
NegativeHours(d) == SelectSeq(d, LAMBDA r : RLt(r.price, R(0)) /\ RGt(r.output, R(0)))

-----------------------------------------------------------------------------
(* Compute.calculateKPIs *)

calculateMonthlyRevenues(d) ==
    LET groups == MonthGroups(d)
        months == [i \in DOMAIN groups |->
                     [month |-> groups[i].key,
                      revenue |-> RSum(Weighted(groups[i].rows)),
                      production |-> RSum(Outputs(groups[i].rows))]]
    IN SortByKey(months, [i \in DOMAIN months |-> MonthKeyOrder(months[i].month)])

calculateRiskMetrics(monthlyRevenues) ==
    LET unsorted == [i \in DOMAIN monthlyRevenues |-> monthlyRevenues[i].revenue]
        revenues == SortByKey(unsorted, unsorted)
    IN IF Len(revenues) = 0 THEN [p5 |-> R(0), p50 |-> R(0), p95 |-> R(0)]
       ELSE [p5 |-> RRound(percentile(revenues, 5)),
             p50 |-> RRound(percentile(revenues, 50)),
             p95 |-> RRound(percentile(revenues, 95))]

calculateMonthlyCaptureRates(d) ==
    LET groups == MonthGroups(d)
        Entry(key, m) ==
            LET priceSum == RSum(Prices(m))
                weightedPriceSum == RSum(Weighted(m))
                outputSum == RSum(Outputs(m))
                count == Len(m)
                baseload == RDiv(priceSum, R(count))
                capture == IF RGt(outputSum, R(0)) THEN RDiv(weightedPriceSum, outputSum)
                           ELSE R(0)
                rate == IF RGt(baseload, R(0)) THEN RMul(RDiv(capture, baseload), R(100))
                        ELSE R(0)
            IN [month |-> key,
                baseload |-> RoundTo(baseload, 100),
                capture |-> RoundTo(capture, 100),
                rate |-> RoundTo(rate, 10)]
        months == [i \in DOMAIN groups |-> Entry(groups[i].key, groups[i].rows)]
    IN SortByKey(months, [i \in DOMAIN months |-> MonthKeyOrder(months[i].month)])

BIN_WIDTH == 10

\* for (let i = min; i < max; i += binWidth) bins.push({min: i, max: i + binWidth})
RECURSIVE Bins(_, _)
Bins(i, max) ==
    IF ~RLt(i, max) THEN <<>>
    ELSE <<[min |-> i, max |-> RAdd(i, R(BIN_WIDTH))]>> \o Bins(RAdd(i, R(BIN_WIDTH)), max)

\* bins.find(b => price >= b.min && price < b.max): index of the first such bin, 0 if none
FindBin(bins, price) ==
    LET hits == {j \in DOMAIN bins : RGe(price, bins[j].min) /\ RLt(price, bins[j].max)}
    IN IF hits = {} THEN 0 ELSE CHOOSE j \in hits : \A k \in hits : j <= k

\* the count of each bin after values.forEach(price => { bin = find; if (bin) count++ })
BinCounts(bins, values) ==
    LET found == [i \in DOMAIN values |-> FindBin(bins, values[i])]
    IN [j \in DOMAIN bins |-> Cardinality({i \in DOMAIN values : found[i] = j})]

\* Math.round((count / total) * 1000) / 10
Percentage(count, total) ==
    RDiv(RRound(RMul(RDiv(R(count), R(total)), R(1000))), R(10))

calculatePriceDistribution(d) ==
    LET allPrices == Prices(d)
        pvPrices == Prices(SelectSeq(d, LAMBDA r : RGt(r.output, R(0))))
        min == RMul(RFloor(RDiv(MinOf(allPrices), R(10))), R(10))
        max == RMul(RCeil(RDiv(MaxOf(allPrices), R(10))), R(10))
        bins == Bins(min, max)
        allCount == BinCounts(bins, allPrices)
        pvCount == BinCounts(bins, pvPrices)
        allTotal == Len(allPrices)
        pvTotal == Len(pvPrices)
    IN [j \in DOMAIN bins |->
          [range |-> <<bins[j].min, bins[j].max>>,
           min |-> bins[j].min,
           allPct |-> Percentage(allCount[j], allTotal),
           pvPct |-> IF pvTotal > 0 THEN Percentage(pvCount[j], pvTotal) ELSE R(0)]]

calculateNegativeHeatmap(d) ==
    LET producing == SelectSeq(d, LAMBDA r : RGt(r.output, R(0)))
        cellOf == [i \in DOMAIN producing |->
                     <<getMonth(producing[i].date), getHours(producing[i].date)>>]
        hit == Range(cellOf)
        Cell(m, h, neg) ==
            IF <<m, h>> \notin hit THEN 0
            ELSE Cardinality({i \in DOMAIN producing :
                     cellOf[i] = <<m, h>> /\ (neg => RLt(producing[i].price, R(0)))})
        heatmap == [m \in 0..11 |-> [h \in 0..23 |-> Cell(m, h, TRUE)]]
        counts == [m \in 0..11 |-> [h \in 0..23 |-> Cell(m, h, FALSE)]]
        cells == {heatmap[m][h] : m \in 0..11, h \in 0..23}
    IN [heatmap |-> heatmap, counts |-> counts,
        maxCount |-> CHOOSE c \in cells : \A c2 \in cells : c2 <= c]

\* Mutant of CapturePrice: the division is not guarded
CapturePrice_Unguarded(weightedSum, totalProduction) == RDiv(weightedSum, totalProduction)

\* totalProduction > 0 ? weightedSum / totalProduction : 0
CapturePrice(weightedSum, totalProduction) ==
    IF RGt(totalProduction, R(0)) THEN RDiv(weightedSum, totalProduction) ELSE R(0)

\* Mutant of CaptureRate: the ratio is not scaled to a percentage
CaptureRate_Fraction(capturePrice, baseloadAvg) ==
    IF RGt(baseloadAvg, R(0)) THEN RDiv(capturePrice, baseloadAvg) ELSE R(0)

\* baseloadAvg > 0 ? (capturePrice / baseloadAvg) * 100 : 0
CaptureRate(capturePrice, baseloadAvg) ==
    IF RGt(baseloadAvg, R(0)) THEN RMul(RDiv(capturePrice, baseloadAvg), R(100)) ELSE R(0)

\* Mutant of NegativePercentage: the share is not scaled to a percentage
NegativePercentage_Share(negativeMWh, totalProduction) ==
    IF RGt(totalProduction, R(0)) THEN RDiv(negativeMWh, totalProduction) ELSE R(0)

\* totalProduction > 0 ? (negativeMWh / totalProduction) * 100 : 0
NegativePercentage(negativeMWh, totalProduction) ==
    IF RGt(totalProduction, R(0)) THEN RMul(RDiv(negativeMWh, totalProduction), R(100))
    ELSE R(0)

\* Mutant of NoData: an empty array is not rejected
NoData_OnlyAbsent(d) == d = Null

\* the guard of calculateKPIs: !data || data.length === 0
NoData(d) == d = Null \/ Len(d.array) = 0

\* Mutant of EffectivePrice: the floor is not applied
EffectivePrice_NoFloor(price, floorPrice) == price

\* effectivePrice: Math.max(price, floorPrice) if (floorPrice !== null)
EffectivePrice(price, floorPrice) ==
    IF floorPrice # Null THEN RMax(price, floorPrice) ELSE price

calculateKPIs(d, capacityMW, opts) ==
    LET floorPrice == opts.floorPrice
        ppaPrice == opts.ppaPrice
        baseloadAvg == calculateMean(Prices(d))
        totalProduction == RSum(Outputs(d))
        weightedSum == RSum(Weighted(d))
        capturePrice == CapturePrice(weightedSum, totalProduction)
        captureRate == CaptureRate(capturePrice, baseloadAvg)
        negativeHours == NegativeHours(d)
        negativeHoursCount == Len(negativeHours)
        negativeMWh == RSum(Outputs(negativeHours))
        negativePercentage == NegativePercentage(negativeMWh, totalProduction)
        merchantRevenue ==
            RSum([i \in DOMAIN d |->
                    RMul(EffectivePrice(d[i].price, floorPrice), d[i].output)])
        ppaRevenue == IF ppaPrice # Null THEN RMul(totalProduction, ppaPrice) ELSE Null
    IN [baseloadAvg |-> RoundTo(baseloadAvg, 100),
        capturePrice |-> RoundTo(capturePrice, 100),
        captureRate |-> RoundTo(captureRate, 10),
        negativeHoursCount |-> negativeHoursCount,
        negativeMWh |-> RRound(negativeMWh),
        negativePercentage |-> RoundTo(negativePercentage, 10),
        totalProduction |-> RRound(totalProduction),
        merchantRevenue |-> RRound(merchantRevenue),
        ppaRevenue |-> IF ppaRevenue # Null THEN RRound(ppaRevenue) ELSE Null,
        riskMetrics |-> calculateRiskMetrics(calculateMonthlyRevenues(d)),
        monthlyCaptureRates |-> calculateMonthlyCaptureRates(d),
        priceDistribution |-> calculatePriceDistribution(d),
        negativeHeatmap |-> calculateNegativeHeatmap(d),
        dataPoints |-> Len(d)]

-----------------------------------------------------------------------------
(* Compute.simulateBattery *)

MIN_SOC == Rat(5, 100)

MAX_SOC == Rat(95, 100)

minSOC(cfg) == RMul(MIN_SOC, cfg.energyMWh)

maxSOC(cfg) == RMul(MAX_SOC, cfg.energyMWh)

sqrtEfficiency(cfg) == RSqrt(cfg.efficiency)

\* the Map of groupByDay: the arrays of its values in insertion order
groupByDay(d) ==
    LET days == GroupBy(d, [i \in DOMAIN d |-> ISODate(d[i].date)])
    IN [k \in DOMAIN days |-> days[k].rows]

Take(s, n) == SubSeq(s, 1, IF n < Len(s) THEN n ELSE Len(s))

\* Mutant of Reverse: the array is left in its order
Reverse_Identity(s) == s

Reverse(s) == [i \in DOMAIN s |-> s[Len(s) + 1 - i]]

\* oneCyclePerDay ? Math.ceil(energyMWh / powerMW) : 24
SliceCount(cfg) ==
    IF cfg.oneCyclePerDay THEN RCeil(RDiv(cfg.energyMWh, cfg.powerMW)).num ELSE 24

\* [...dayData].sort((a, b) => a.price - b.price)
sortedHours(dayData) == SortByKey(dayData, Prices(dayData))

\* Mutant of chargeHours: the first producing hours of the day, not the cheapest
chargeHours_InDayOrder(dayData, cfg) ==
    Take(SelectSeq(dayData, LAMBDA r : RGt(r.output, R(0))), SliceCount(cfg))

chargeHours(dayData, cfg) ==
    Take(SelectSeq(sortedHours(dayData), LAMBDA r : RGt(r.output, R(0))), SliceCount(cfg))

dischargeHours(dayData, cfg) ==
    LET charging == Range(chargeHours(dayData, cfg))
    IN Take(Reverse(SelectSeq(sortedHours(dayData),
                              LAMBDA r : r.output = R(0) \/ r \notin charging)),
            SliceCount(cfg))

\* Mutant of DayStart: the day starts with a full battery
DayStart_Full(cfg) ==
    [soc |-> maxSOC(cfg), dayUplift |-> R(0), dayShifted |-> R(0), dayNegAvoided |-> R(0)]

\* the locals of one day's walk at its start
DayStart(cfg) ==
    [soc |-> minSOC(cfg), dayUplift |-> R(0), dayShifted |-> R(0), dayNegAvoided |-> R(0)]

\* Mutant of ChargeAmount: the headroom to maxSOC is not taken into account
ChargeAmount_NoHeadroom(soc, hour, cfg) ==
    RMul(RMin(hour.output, cfg.powerMW), sqrtEfficiency(cfg))

\* Mutant of ChargeAmount: the hour's output does not limit the charge
ChargeAmount_FromGrid(soc, hour, cfg) ==
    LET availableCapacity == RSub(maxSOC(cfg), soc)
    IN RMul(RMin(cfg.powerMW, availableCapacity), sqrtEfficiency(cfg))

\* actualCharge of one charge hour
ChargeAmount(soc, hour, cfg) ==
    LET availableCapacity == RSub(maxSOC(cfg), soc)
        chargeableFromPV == RMin(hour.output, cfg.powerMW)
    IN RMul(RMin(chargeableFromPV, availableCapacity), sqrtEfficiency(cfg))

\* Mutant of ChargeStep: the revenue foregone is added to the uplift
ChargeStep_Gain(st, hour, cfg) ==
    LET actualCharge == ChargeAmount(st.soc, hour, cfg)
        fromPV == RDiv(actualCharge, sqrtEfficiency(cfg))
    IN IF RGt(actualCharge, R(0))
       THEN [soc |-> RAdd(st.soc, actualCharge),
             dayUplift |-> RAdd(st.dayUplift, RMul(fromPV, hour.price)),
             dayShifted |-> RAdd(st.dayShifted, fromPV),
             dayNegAvoided |-> IF RLt(hour.price, R(0))
                               THEN RAdd(st.dayNegAvoided, fromPV)
                               ELSE st.dayNegAvoided]
       ELSE st

\* one iteration of the loop over chargeHours
ChargeStep(st, hour, cfg) ==
    LET actualCharge == ChargeAmount(st.soc, hour, cfg)
        fromPV == RDiv(actualCharge, sqrtEfficiency(cfg))
    IN IF RGt(actualCharge, R(0))
       THEN [soc |-> RAdd(st.soc, actualCharge),
             dayUplift |-> RSub(st.dayUplift, RMul(fromPV, hour.price)),
             dayShifted |-> RAdd(st.dayShifted, fromPV),
             dayNegAvoided |-> IF RLt(hour.price, R(0))
                               THEN RAdd(st.dayNegAvoided, fromPV)
                               ELSE st.dayNegAvoided]
       ELSE st

\* Mutant of DischargeAmount: the power limit is not applied
DischargeAmount_All(soc, cfg) == RSub(soc, minSOC(cfg))

\* actualDischarge of one discharge hour
DischargeAmount(soc, cfg) == RMin(cfg.powerMW, RSub(soc, minSOC(cfg)))

\* one iteration of the loop over dischargeHours
DischargeStep(st, hour, cfg) ==
    LET actualDischarge == DischargeAmount(st.soc, cfg)
    IN IF RGt(actualDischarge, R(0))
       THEN [st EXCEPT !.soc = RSub(st.soc, actualDischarge),
                       !.dayUplift = RAdd(st.dayUplift,
                           RMul(RMul(actualDischarge, sqrtEfficiency(cfg)), hour.price))]
       ELSE st

RECURSIVE ChargeWalk(_, _, _)
ChargeWalk(st, hours, cfg) ==
    IF hours = <<>> THEN st
    ELSE ChargeWalk(ChargeStep(st, hours[1], cfg), Tail(hours), cfg)

RECURSIVE DischargeWalk(_, _, _)
DischargeWalk(st, hours, cfg) ==
    IF hours = <<>> THEN st
    ELSE DischargeWalk(DischargeStep(st, hours[1], cfg), Tail(hours), cfg)

\* the locals of a day's walk after its charge and discharge loops
DayEnd(dayData, cfg) ==
    DischargeWalk(ChargeWalk(DayStart(cfg), chargeHours(dayData, cfg), cfg),
                  dischargeHours(dayData, cfg), cfg)

\* upliftPercentage: originalRevenue > 0 ? round(totalUplift / originalRevenue * 1000) / 10 : 0
UpliftPercentage(totalUplift, originalRevenue) ==
    IF RGt(originalRevenue, R(0))
    THEN RDiv(RRound(RMul(RDiv(totalUplift, originalRevenue), R(1000))), R(10))
    ELSE R(0)

\* the result object built from the totals accumulated over the days
BatteryResult(d, cfg, totalUplift, totalShiftedMWh, totalNegativeAvoided, dailyResults) ==
    LET originalRevenue == RSum(Weighted(d))
        newRevenue == RAdd(originalRevenue, totalUplift)
        totalProduction == RSum(Outputs(d))
        effectiveCapturePrice == IF RGt(totalProduction, R(0))
                                 THEN RDiv(newRevenue, totalProduction) ELSE R(0)
        negativeReduction == IF RGt(totalNegativeAvoided, R(0))
                             THEN RMul(RDiv(totalNegativeAvoided,
                                            RSum(Outputs(NegativeHours(d)))), R(100))
                             ELSE R(0)
    IN [totalUplift |-> RRound(totalUplift),
        totalShiftedMWh |-> RRound(totalShiftedMWh),
        effectiveCapturePrice |-> RoundTo(effectiveCapturePrice, 100),
        negativeReduction |-> RoundTo(negativeReduction, 10),
        upliftPercentage |-> UpliftPercentage(totalUplift, originalRevenue),
        dailyResults |-> dailyResults,
        config |-> cfg]

simulateBattery(d, cfg) ==
    LET days == groupByDay(d)
        ends == [k \in DOMAIN days |-> DayEnd(days[k], cfg)]
    IN BatteryResult(d, cfg,
                     RSum([k \in DOMAIN days |-> ends[k].dayUplift]),
                     RSum([k \in DOMAIN days |-> ends[k].dayShifted]),
                     RSum([k \in DOMAIN days |-> ends[k].dayNegAvoided]),
                     [k \in DOMAIN days |->
                        [date |-> days[k][1].date, uplift |-> ends[k].dayUplift,
                         shifted |-> ends[k].dayShifted]])

-----------------------------------------------------------------------------
(* Compute.findRepresentativeWeeks *)

WEEK_HOURS == 168

MIN_WEEK_HOURS == 120

\* the loop of groupByWeek: a window is pushed when it holds WEEK_HOURS records
\* and one more record arrives; the rest is left in currentWeek
RECURSIVE GroupLoop(_)
GroupLoop(d) ==
    IF Len(d) <= WEEK_HOURS THEN [weeks |-> <<>>, currentWeek |-> d]
    ELSE LET rest == GroupLoop(SubSeq(d, WEEK_HOURS + 1, Len(d)))
         IN [weeks |-> <<SubSeq(d, 1, WEEK_HOURS)>> \o rest.weeks,
             currentWeek |-> rest.currentWeek]

\* Mutant of groupByWeek: the last window is kept whatever its length
groupByWeek_KeepAll(d) ==
    LET loop == GroupLoop(d)
    IN IF Len(loop.currentWeek) >= 1
       THEN Append(loop.weeks, loop.currentWeek)
       ELSE loop.weeks

groupByWeek(d) ==
    LET loop == GroupLoop(d)
    IN IF Len(loop.currentWeek) >= MIN_WEEK_HOURS
       THEN Append(loop.weeks, loop.currentWeek)
       ELSE loop.weeks

\* Mutant of calculateWeekCaptureRate: the two guards are missing
calculateWeekCaptureRate_Unguarded(weekData) ==
    RDiv(RDiv(RSum(Weighted(weekData)), RSum(Outputs(weekData))),
         calculateMean(Prices(weekData)))

calculateWeekCaptureRate(weekData) ==
    LET totalOutput == RSum(Outputs(weekData))
        weightedSum == RSum(Weighted(weekData))
        capturePrice == RDiv(weightedSum, totalOutput)
        avgPrice == calculateMean(Prices(weekData))
    IN IF totalOutput = R(0) THEN R(0)
       ELSE IF RGt(avgPrice, R(0)) THEN RDiv(capturePrice, avgPrice) ELSE R(0)

\* the mean of the squared differences; calculateStdDev is its square root
Variance(values) ==
    LET mean == calculateMean(values)
    IN calculateMean([i \in DOMAIN values |->
                        RMul(RSub(values[i], mean), RSub(values[i], mean))])

\* Math.sqrt is monotone: the standard deviation is held as the number whose
\* square root it is
calculateStdDev(values) ==
    IF Len(values) = 0 THEN [sqrtOf |-> R(0)] ELSE [sqrtOf |-> Variance(values)]

weekMetrics(d) ==
    LET weeks == groupByWeek(d)
    IN [w \in DOMAIN weeks |->
          [data |-> weeks[w],
           startDate |-> weeks[w][1].date,
           volatility |-> calculateStdDev(Prices(weeks[w])),
           negativeHours |-> Len(NegativeHours(weeks[w])),
           avgCapture |-> calculateWeekCaptureRate(weeks[w])]]

\* sortedArr[i] of a JavaScript array: undefined outside its bounds
At(arr, i) == IF i \in DOMAIN arr THEN arr[i] ELSE Null

\* Mutant of findRepresentativeWeeks: the typical pick is the lower of the two
\* middle windows when their number is even
findRepresentativeWeeks_LowerMiddle(d) ==
    LET metrics == weekMetrics(d)
        sortedByVolatility ==
            SortByKey(metrics, [w \in DOMAIN metrics |-> metrics[w].volatility.sqrtOf])
        medianIdx == (Len(sortedByVolatility) - 1) \div 2
        sortedByNegative ==
            SortByKey(metrics, [w \in DOMAIN metrics |-> R(0 - metrics[w].negativeHours)])
    IN [typical |-> At(sortedByVolatility, medianIdx + 1),
        volatile |-> At(sortedByVolatility, Len(sortedByVolatility)),
        negative |-> At(sortedByNegative, 1)]

\* Mutant of findRepresentativeWeeks: the negative pick is the last window of
\* the ascending order of negative hours
findRepresentativeWeeks_LastTie(d) ==
    LET metrics == weekMetrics(d)
        sortedByVolatility ==
            SortByKey(metrics, [w \in DOMAIN metrics |-> metrics[w].volatility.sqrtOf])
        medianIdx == Len(sortedByVolatility) \div 2
        sortedByNegative ==
            SortByKey(metrics, [w \in DOMAIN metrics |-> R(metrics[w].negativeHours)])
    IN [typical |-> At(sortedByVolatility, medianIdx + 1),
        volatile |-> At(sortedByVolatility, Len(sortedByVolatility)),
        negative |-> At(sortedByNegative, Len(sortedByNegative))]

findRepresentativeWeeks(d) ==
    LET metrics == weekMetrics(d)
        sortedByVolatility ==
            SortByKey(metrics, [w \in DOMAIN metrics |-> metrics[w].volatility.sqrtOf])
        medianIdx == Len(sortedByVolatility) \div 2
        sortedByNegative ==
            SortByKey(metrics, [w \in DOMAIN metrics |-> R(0 - metrics[w].negativeHours)])
    IN [typical |-> At(sortedByVolatility, medianIdx + 1),
        volatile |-> At(sortedByVolatility, Len(sortedByVolatility)),
        negative |-> At(sortedByNegative, 1)]

-----------------------------------------------------------------------------
(* The engine run on one aligned series: calculateKPIs, simulateBattery and *)
(* findRepresentativeWeeks called in the order of App.runAnalysis; the run  *)
(* ends when calculateKPIs throws.                                          *)

MaxLen == 2

MaxWeeks == 1

ComputeTimestamps == {0, HOUR, 743 * HOUR, 744 * HOUR}

ComputePrices == {R(-5), Rat(41, 8), R(10)}

ComputeOutputs == {R(0), Rat(1, 2), R(10)}

Record(ts, price, output) ==
    [timestamp |-> ts, price |-> price, output |-> output, date |-> ts]

RECURSIVE Ascending(_)
Ascending(T) ==
    IF T = {} THEN <<>>
    ELSE LET t == CHOOSE x \in T : \A y \in T : x <= y
         IN <<t>> \o Ascending(T \ {t})

\* the aligned series of at most MaxLen records (ascending, distinct timestamps)
ShortSeries ==
    UNION {{[i \in DOMAIN Ascending(T) |->
                Record(Ascending(T)[i], f[Ascending(T)[i]][1], f[Ascending(T)[i]][2])] :
            f \in [T -> ComputePrices \X ComputeOutputs]} :
           T \in {U \in SUBSET ComputeTimestamps : Cardinality(U) <= MaxLen}}

\* hourly patterns <<price, output>> repeated through a week
WeekPatterns ==
    << <<<<R(5), R(0)>>>>,
       <<<<R(-5), R(10)>>>>,
       <<<<R(100), R(10)>>, <<R(-5), R(10)>>>>,
       <<<<R(10), Rat(1, 2)>>, <<R(5), R(0)>>>> >>

LastWeekLens == {MIN_WEEK_HOURS - 1, MIN_WEEK_HOURS, WEEK_HOURS}

\* the hourly series of w weeks, week k following pattern pats[k], the last
\* week cut to lastLen records
LongSeriesOf(pats, lastLen) ==
    LET w == Len(pats)
        n == (w - 1) * WEEK_HOURS + lastLen
    IN [i \in 1..n |->
          LET pat == WeekPatterns[pats[((i - 1) \div WEEK_HOURS) + 1]]
              hour == pat[((i - 1) % Len(pat)) + 1]
          IN Record((i - 1) * HOUR, hour[1], hour[2])]

\* two days of hourly records following one pattern
ExampleSeries == {LongSeriesOf(<<p>>, 48) : p \in DOMAIN WeekPatterns}

LongSeries ==
    {LongSeriesOf(pats, lastLen) :
        pats \in UNION {[1..w -> DOMAIN WeekPatterns] : w \in 1..MaxWeeks},
        lastLen \in LastWeekLens}

FloorPrices == {Null, R(0)}

PpaPrices == {Null, R(50)}

TZOffsets == {0, 1}

ComputeBattery ==
    [powerMW |-> R(10), energyMWh |-> R(20), efficiency |-> Rat(81, 100),
     oneCyclePerDay |-> TRUE]

capacityMW == R(10)

IdleAlign == prices = <<>> /\ pvProfile = <<>> /\ aligned = Null

InitCompute ==
    /\ \/ /\ data \in {Null} \cup {Arr(d) : d \in ShortSeries}
          /\ \/ /\ options \in [floorPrice : FloorPrices, ppaPrice : PpaPrices]
                /\ tzOffset = 0
             \/ /\ options = [floorPrice |-> Null, ppaPrice |-> Null]
                /\ tzOffset \in TZOffsets
       \/ /\ data \in {Arr(d) : d \in LongSeries}
          /\ options = [floorPrice |-> Null, ppaPrice |-> Null]
          /\ tzOffset = 0
       \/ /\ data \in {Arr(d) : d \in ExampleSeries}
          /\ options \in [floorPrice : FloorPrices, ppaPrice : PpaPrices]
          /\ tzOffset = 0
    /\ batteryConfig = ComputeBattery
    /\ kpis = Null /\ kpiError = Null
    /\ batteryResults = Null
    /\ representativeWeeks = Null
    /\ IdleAlign
    /\ sim = Null
    /\ app = Null
    /\ worker = Null

NO_DATA == "No data available for computation"

CalculateKPIs ==
    /\ kpis = Null /\ kpiError = Null
    /\ IF NoData(data)
       THEN kpiError' = [message |-> NO_DATA] /\ kpis' = kpis
       ELSE kpis' = calculateKPIs(data.array, capacityMW, options) /\ kpiError' = kpiError
    /\ UNCHANGED <<alignVars, data, options, batteryConfig, batteryResults,
                   representativeWeeks, sim, app, tzOffset, worker>>

SimulateBattery ==
    /\ kpis # Null
    /\ batteryResults = Null
    /\ batteryResults' = simulateBattery(data.array, batteryConfig)
    /\ UNCHANGED <<alignVars, data, options, kpis, kpiError, batteryConfig,
                   representativeWeeks, sim, app, tzOffset, worker>>

FindRepresentativeWeeks ==
    /\ batteryResults # Null
    /\ representativeWeeks = Null
    /\ representativeWeeks' = findRepresentativeWeeks(data.array)
    /\ UNCHANGED <<alignVars, data, options, kpis, kpiError, batteryConfig,
                   batteryResults, sim, app, tzOffset, worker>>

NextCompute == CalculateKPIs \/ SimulateBattery \/ FindRepresentativeWeeks

SpecCompute == InitCompute /\ [][NextCompute]_vars

-----------------------------------------------------------------------------
(* Properties of the engine *)

KpiFields ==
    {"baseloadAvg", "capturePrice", "captureRate", "negativeHoursCount", "negativeMWh",
     "negativePercentage", "totalProduction", "merchantRevenue", "ppaRevenue",
     "riskMetrics", "monthlyCaptureRates", "priceDistribution", "negativeHeatmap",
     "dataPoints"}

FullyPopulated(k) ==
    /\ DOMAIN k = KpiFields
    /\ \A f \in {"baseloadAvg", "capturePrice", "captureRate", "negativeMWh",
                  "negativePercentage", "totalProduction", "merchantRevenue"} :
          k[f] # Null
    /\ k.negativeHoursCount \in Nat
    /\ (k.ppaRevenue = Null <=> options.ppaPrice = Null)
    /\ DOMAIN k.riskMetrics = {"p5", "p50", "p95"}
    /\ Len(k.monthlyCaptureRates) >= 1
    /\ DOMAIN k.negativeHeatmap.heatmap = 0..11
    /\ k.dataPoints = Len(data.array)

CalculateKPIsReturned == kpis # Null \/ kpiError # Null

\* C4: calculateKPIs throws the "no data" error exactly when the series is
\* empty or absent; for every non-empty series it returns a result with all
\* its fields and throws nothing.
C4_NoDataIffEmpty ==
    CalculateKPIsReturned =>
        /\ (kpiError # Null <=> (data = Null \/ Len(data.array) = 0))
        /\ (kpiError # Null => kpiError.message = NO_DATA /\ kpis = Null)
        /\ (kpiError = Null => FullyPopulated(kpis))

C4_Witness == kpiError # Null /\ data # Null /\ Len(data.array) = 0

KpiNumbers(k) ==
    {k.baseloadAvg, k.capturePrice, k.captureRate, k.negativeMWh, k.negativePercentage,
     k.totalProduction, k.merchantRevenue, k.riskMetrics.p5, k.riskMetrics.p50,
     k.riskMetrics.p95}
    \cup (IF k.ppaRevenue = Null THEN {} ELSE {k.ppaRevenue})
    \cup UNION {{k.monthlyCaptureRates[i].baseload, k.monthlyCaptureRates[i].capture,
                 k.monthlyCaptureRates[i].rate} : i \in DOMAIN k.monthlyCaptureRates}
    \cup UNION {{k.priceDistribution[j].allPct, k.priceDistribution[j].pvPct,
                 k.priceDistribution[j].min} : j \in DOMAIN k.priceDistribution}

BatteryNumbers(b) ==
    {b.totalUplift, b.totalShiftedMWh, b.effectiveCapturePrice, b.negativeReduction,
     b.upliftPercentage}
    \cup UNION {{b.dailyResults[i].uplift, b.dailyResults[i].shifted} :
                i \in DOMAIN b.dailyResults}

Picks(w) == {x \in {w.typical, w.volatile, w.negative} : x # Null}

TotalOutput(d) == RSum(Outputs(d))

MeanPrice(d) == RDiv(RSum(Prices(d)), R(Len(d)))

RecordsOfMonth(d, key) == SelectSeq(d, LAMBDA r : MonthKey(r.date) = key)

ExposedOutput(d) ==
    RSum(Outputs(SelectSeq(d, LAMBDA r : RLt(r.price, R(0)) /\ RGt(r.output, R(0)))))

\* C6: every division of calculateKPIs, simulateBattery and
\* findRepresentativeWeeks is guarded: for a non-empty series no numeric
\* result is NaN or infinite, and each ratio is 0 where its denominator is
\* zero (or, for the rates taken against a mean price or a revenue, not
\* positive).
C6_DivisionsGuarded ==
    /\ kpis # Null =>
          /\ \A x \in KpiNumbers(kpis) : IsFinite(x)
          /\ (TotalOutput(data.array) = R(0) =>
                 kpis.capturePrice = R(0) /\ kpis.negativePercentage = R(0))
          /\ (RLe(MeanPrice(data.array), R(0)) => kpis.captureRate = R(0))
          /\ \A i \in DOMAIN kpis.monthlyCaptureRates :
                LET e == kpis.monthlyCaptureRates[i]
                    m == RecordsOfMonth(data.array, e.month)
                IN /\ (TotalOutput(m) = R(0) => e.capture = R(0))
                   /\ (RLe(MeanPrice(m), R(0)) => e.rate = R(0))
          /\ (TotalOutput(data.array) = R(0) =>
                 \A j \in DOMAIN kpis.priceDistribution :
                    kpis.priceDistribution[j].pvPct = R(0))
    /\ batteryResults # Null =>
          /\ \A x \in BatteryNumbers(batteryResults) : IsFinite(x)
          /\ (TotalOutput(data.array) = R(0) =>
                 batteryResults.effectiveCapturePrice = R(0))
          /\ (ExposedOutput(data.array) = R(0) => batteryResults.negativeReduction = R(0))
          /\ (RLe(RSum(Weighted(data.array)), R(0)) =>
                 batteryResults.upliftPercentage = R(0))
    /\ representativeWeeks # Null =>
          \A w \in Picks(representativeWeeks) :
             /\ IsFinite(w.avgCapture)
             /\ IsFinite(w.volatility.sqrtOf)
             /\ (TotalOutput(w.data) = R(0) \/ RLe(MeanPrice(w.data), R(0)) =>
                    w.avgCapture = R(0))

C6_Witness ==
    /\ kpis # Null /\ batteryResults # Null /\ representativeWeeks # Null
    /\ representativeWeeks.typical # Null
    /\ TotalOutput(data.array) = R(0)

ConstantOutput(d) == Len(d) >= 1 /\ \A i \in DOMAIN d : d[i].output = d[1].output

ConstantPrice(d) == Len(d) >= 1 /\ \A i \in DOMAIN d : d[i].price = d[1].price

\* C7 as stated: with the same output in all records capturePrice equals
\* baseloadAvg and captureRate is 100.
C7_Original ==
    (kpis # Null /\ ConstantOutput(data.array)) =>
        kpis.capturePrice = kpis.baseloadAvg /\ kpis.captureRate = R(100)

\* C7 amended: with the same positive output in all records capturePrice
\* equals baseloadAvg, and captureRate is 100 when the mean price is positive
\* and 0 otherwise; with output 0 in all records both are 0.
C7_ConstantOutput ==
    (kpis # Null /\ ConstantOutput(data.array)) =>
        IF RGt(data.array[1].output, R(0))
        THEN /\ kpis.capturePrice = kpis.baseloadAvg
             /\ kpis.captureRate =
                    (IF RGt(MeanPrice(data.array), R(0)) THEN R(100) ELSE R(0))
        ELSE kpis.capturePrice = R(0) /\ kpis.captureRate = R(0)

C7_Witness ==
    /\ kpis # Null /\ Len(data.array) >= 2 /\ ConstantOutput(data.array)
    /\ RGt(data.array[1].output, R(0))
    /\ data.array[1].price # data.array[2].price
    /\ kpis.captureRate = R(100)

\* C8 as stated: with all prices equal to V, capturePrice is V and
\* captureRate is 100 whatever the outputs are.
C8_Original ==
    (kpis # Null /\ ConstantPrice(data.array)) =>
        kpis.capturePrice = data.array[1].price /\ kpis.captureRate = R(100)

\* C8 amended: with all prices equal to V and a positive total output,
\* capturePrice is V rounded to 2 decimals and captureRate is 100 when V > 0
\* and 0 otherwise; with a total output of 0 both are 0.
C8_ConstantPrice ==
    (kpis # Null /\ ConstantPrice(data.array)) =>
        IF RGt(TotalOutput(data.array), R(0))
        THEN /\ kpis.capturePrice = RoundTo(data.array[1].price, 100)
             /\ kpis.captureRate =
                    (IF RGt(data.array[1].price, R(0)) THEN R(100) ELSE R(0))
        ELSE kpis.capturePrice = R(0) /\ kpis.captureRate = R(0)

C8_Witness ==
    /\ kpis # Null /\ Len(data.array) >= 2 /\ ConstantPrice(data.array)
    /\ data.array[1].output # data.array[2].output
    /\ RGt(data.array[1].output, R(0)) /\ RGt(data.array[2].output, R(0))
    /\ kpis.captureRate = R(100)

NoExposedRecord(d) ==
    \A i \in DOMAIN d : ~(RLt(d[i].price, R(0)) /\ RGt(d[i].output, R(0)))

\* C9: when no record has price < 0 and output > 0, negativePercentage,
\* negativeHoursCount and negativeMWh are 0, also when records with price < 0
\* and output = 0 are present.
C9_NoNegativeExposure ==
    (kpis # Null /\ NoExposedRecord(data.array)) =>
        /\ kpis.negativePercentage = R(0)
        /\ kpis.negativeHoursCount = 0
        /\ kpis.negativeMWh = R(0)

C9_Witness ==
    /\ kpis # Null /\ NoExposedRecord(data.array)
    /\ \E i \in DOMAIN data.array :
          RLt(data.array[i].price, R(0)) /\ data.array[i].output = R(0)
    /\ RGt(TotalOutput(data.array), R(0))

SingleMonth(d) == \A i \in DOMAIN d : MonthKey(d[i].date) = MonthKey(d[1].date)

\* the revenues of the months of d in ascending order
SortedMonthlyRevenues(d) ==
    LET months == SetOf([i \in DOMAIN d |-> MonthKey(d[i].date)])
        revenue == [k \in DOMAIN months |-> RSum(Weighted(RecordsOfMonth(d, months[k])))]
    IN SortByKey(revenue, revenue)

\* linear interpolation at index p/100 * (n - 1) of the ascending array r
Interpolated(r, p) ==
    LET n == Len(r)
        whole == (p * (n - 1)) \div 100
        part == Rat((p * (n - 1)) % 100, 100)
    IN IF part = R(0) THEN r[whole + 1]
       ELSE RAdd(r[whole + 1], RMul(RSub(r[whole + 2], r[whole + 1]), part))

-----------------------------------------------------------------------------
(* Inputs of the aligner *)

MaxPoints == 2

AlignTimestamps == {0, HOUR, 2 * HOUR}

AlignPrices == {R(-5), R(40)}

AlignOutputs == {R(0), R(10)}

SeqsUpTo(S, n) == UNION {[1..k -> S] : k \in 0..n}

PricePoints == [timestamp : AlignTimestamps, price : AlignPrices]

OutputPoints == [timestamp : AlignTimestamps, output : AlignOutputs]

IdleCompute ==
    /\ data = Null /\ options = Null /\ kpis = Null /\ kpiError = Null
    /\ batteryConfig = Null /\ batteryResults = Null
    /\ representativeWeeks = Null

InitAlign ==
    /\ prices \in SeqsUpTo(PricePoints, MaxPoints)
    /\ pvProfile \in SeqsUpTo(OutputPoints, MaxPoints)
    /\ aligned = Null
    /\ IdleCompute
    /\ sim = Null
    /\ app = Null
    /\ tzOffset = 0
    /\ worker = Null

AlignData ==
    /\ aligned = Null
    /\ aligned' = Arr(alignData(prices, pvProfile))
    /\ UNCHANGED <<prices, pvProfile, computeVars, sim, app, tzOffset, worker>>

NextAlign == AlignData

SpecAlign == InitAlign /\ [][NextAlign]_vars

TsSet(points) == {points[i].timestamp : i \in DOMAIN points}

\* C1: the timestamps of alignData(prices, pvProfile) are exactly the
\* timestamps present in both prices and pvProfile (in particular none when
\* the inputs share no timestamp).
C1_AlignIsIntersection ==
    aligned # Null =>
        /\ TsSet(aligned.array) = TsSet(prices) \cap TsSet(pvProfile)
        /\ (TsSet(prices) \cap TsSet(pvProfile) = {} => aligned.array = <<>>)

C1_Witness ==
    /\ aligned # Null
    /\ TsSet(aligned.array) # {}
    /\ TsSet(prices) \ TsSet(pvProfile) # {}
    /\ TsSet(pvProfile) \ TsSet(prices) # {}

\* C2: the sequence returned by alignData is strictly ascending by timestamp
\* and no longer than the shorter input, also for unsorted inputs and inputs
\* that repeat a timestamp.
C2_AlignSortedUnique ==
    aligned # Null =>
        /\ \A i \in 1..(Len(aligned.array) - 1) :
              aligned.array[i].timestamp < aligned.array[i + 1].timestamp
        /\ Len(aligned.array) <= Len(prices)
        /\ Len(aligned.array) <= Len(pvProfile)

C2_Witness ==
    /\ aligned # Null
    /\ Len(aligned.array) = 2
    /\ prices[1].timestamp > prices[2].timestamp
    /\ pvProfile[1].timestamp < pvProfile[2].timestamp

-----------------------------------------------------------------------------
(* Compute.simulateBattery taken one loop iteration at a time: sim holds    *)
(* the locals of the call, sim.phase the loop the call stands in.           *)

MaxHours == 3

BatteryTimestamps == {0, HOUR, 2 * HOUR, 24 * HOUR}

BatteryPrices == {R(-5), R(40)}

BatteryOutputs == {R(0), R(4), R(25)}

\* the aligned series of at most MaxHours records (ascending, distinct timestamps)
BatterySeries ==
    UNION {{[i \in DOMAIN Ascending(T) |->
                Record(Ascending(T)[i], f[Ascending(T)[i]][1], f[Ascending(T)[i]][2])] :
            f \in [T -> BatteryPrices \X BatteryOutputs]} :
           T \in {U \in SUBSET BatteryTimestamps : Cardinality(U) <= MaxHours}}

\* powerMW > 0, energyMWh > 0, efficiency in (0, 1] with a rational square root
BatteryConfigs ==
    [powerMW : {R(10)}, energyMWh : {R(10), R(25)}, efficiency : {R(1), Rat(81, 100)},
     oneCyclePerDay : BOOLEAN]

\* the loop the call stands in once loop `phase` has reached index i
PhaseAt(phase, i, charge, discharge) ==
    IF phase = "charge" /\ i > Len(charge)
    THEN (IF Len(discharge) = 0 THEN [phase |-> "track", i |-> 1]
          ELSE [phase |-> "discharge", i |-> 1])
    ELSE IF phase = "discharge" /\ i > Len(discharge) THEN [phase |-> "track", i |-> 1]
    ELSE [phase |-> phase, i |-> i]

\* the locals of the call before the loop over days
SimStart(d) ==
    [days |-> groupByDay(d), day |-> 1, phase |-> "days", i |-> 1,
     chargeHours |-> <<>>, dischargeHours |-> <<>>,
     st |-> Null, last |-> "none",
     totalUplift |-> R(0), totalShiftedMWh |-> R(0), totalNegativeAvoided |-> R(0),
     dailyResults |-> <<>>]

\* one day of 24 hourly records: price -10 and output 10 in hour c, price 50
\* and output 0 in hour h, price 0 and output 0 in the other hours
ExampleDay(c, h) ==
    [i \in 1..24 |->
        IF i = c THEN Record((i - 1) * HOUR, R(-10), R(10))
        ELSE IF i = h THEN Record((i - 1) * HOUR, R(50), R(0))
        ELSE Record((i - 1) * HOUR, R(0), R(0))]

ExampleDays == {ExampleDay(c, h) : c \in 1..24, h \in {1, 2, 12, 23, 24}}

ExampleBattery ==
    [powerMW |-> R(10), energyMWh |-> R(20), efficiency |-> R(1), oneCyclePerDay |-> TRUE]

InitBattery ==
    /\ \/ /\ data \in {Arr(d) : d \in BatterySeries}
          /\ batteryConfig \in BatteryConfigs
       \/ /\ data \in {Arr(d) : d \in ExampleDays}
          /\ batteryConfig = ExampleBattery
    /\ sim = SimStart(data.array)
    /\ options = [floorPrice |-> Null, ppaPrice |-> Null]
    /\ tzOffset = 0
    /\ worker = Null
    /\ kpis = Null /\ kpiError = Null
    /\ batteryResults = Null
    /\ representativeWeeks = Null
    /\ IdleAlign
    /\ app = Null

\* for (const dayData of days): the hours to charge and discharge in, soc = minSOC
BeginDay ==
    /\ sim.phase = "days" /\ sim.day <= Len(sim.days)
    /\ LET dayData == sim.days[sim.day]
           charge == chargeHours(dayData, batteryConfig)
           discharge == dischargeHours(dayData, batteryConfig)
           at == PhaseAt("charge", 1, charge, discharge)
       IN sim' = [sim EXCEPT !.chargeHours = charge, !.dischargeHours = discharge,
                             !.st = DayStart(batteryConfig), !.last = "none",
                             !.phase = at.phase, !.i = at.i]
    /\ UNCHANGED <<alignVars, computeVars, app, tzOffset, worker>>

\* one iteration of for (const hour of chargeHours)
ChargeHour ==
    /\ sim.phase = "charge"
    /\ LET at == PhaseAt("charge", sim.i + 1, sim.chargeHours, sim.dischargeHours)
       IN sim' = [sim EXCEPT !.st = ChargeStep(sim.st, sim.chargeHours[sim.i], batteryConfig),
                             !.last = "charge", !.phase = at.phase, !.i = at.i]
    /\ UNCHANGED <<alignVars, computeVars, app, tzOffset, worker>>

\* one iteration of for (const hour of dischargeHours)
DischargeHour ==
    /\ sim.phase = "discharge"
    /\ LET at == PhaseAt("discharge", sim.i + 1, sim.chargeHours, sim.dischargeHours)
       IN sim' = [sim EXCEPT !.st = DischargeStep(sim.st, sim.dischargeHours[sim.i],
                                                  batteryConfig),
                             !.last = "discharge", !.phase = at.phase, !.i = at.i]
    /\ UNCHANGED <<alignVars, computeVars, app, tzOffset, worker>>

\* the end of the day's iteration: the totals and dailyResults.push
EndDay ==
    /\ sim.phase = "track"
    /\ sim' = [sim EXCEPT
                 !.totalUplift = RAdd(sim.totalUplift, sim.st.dayUplift),
                 !.totalShiftedMWh = RAdd(sim.totalShiftedMWh, sim.st.dayShifted),
                 !.totalNegativeAvoided = RAdd(sim.totalNegativeAvoided, sim.st.dayNegAvoided),
                 !.dailyResults = Append(sim.dailyResults,
                                         [date |-> sim.days[sim.day][1].date,
                                          uplift |-> sim.st.dayUplift,
                                          shifted |-> sim.st.dayShifted]),
                 !.day = sim.day + 1, !.phase = "days", !.i = 1]
    /\ UNCHANGED <<alignVars, computeVars, app, tzOffset, worker>>

\* after the loop over days: the result object
ReturnBattery ==
    /\ sim.phase = "days" /\ sim.day > Len(sim.days)
    /\ batteryResults' = BatteryResult(data.array, batteryConfig, sim.totalUplift,
                                       sim.totalShiftedMWh, sim.totalNegativeAvoided,
                                       sim.dailyResults)
    /\ sim' = [sim EXCEPT !.phase = "returned"]
    /\ UNCHANGED <<alignVars, data, options, kpis, kpiError, batteryConfig,
                   representativeWeeks, app, tzOffset, worker>>

NextBattery == BeginDay \/ ChargeHour \/ DischargeHour \/ EndDay \/ ReturnBattery

SpecBattery == InitBattery /\ [][NextBattery]_vars

InDay == sim.phase \in {"charge", "discharge", "track"}

\* C3: on every day, from its start and after every charge step and every
\* discharge step, minSOC <= soc <= maxSOC, that is
\* 0.05 * energyMWh <= soc <= 0.95 * energyMWh.
C3_SocWithinLimits ==
    InDay =>
        /\ RLe(RMul(Rat(5, 100), batteryConfig.energyMWh), sim.st.soc)
        /\ RLe(sim.st.soc, RMul(Rat(95, 100), batteryConfig.energyMWh))

\* a charge step limited by the headroom has brought soc to the ceiling
C3_Witness ==
    /\ InDay /\ sim.last = "charge"
    /\ sim.st.soc = RMul(Rat(95, 100), batteryConfig.energyMWh)
    /\ RGt(sim.st.dayShifted, R(0))

\* the call taken step by step returns what simulateBattery returns
StepwiseAgrees ==
    batteryResults # Null => batteryResults = simulateBattery(data.array, batteryConfig)

-----------------------------------------------------------------------------
(* App.runAnalysis. window.AppState is held in prices (priceData), pvProfile,*)
(* aligned (alignedData), kpis, batteryResults, representativeWeeks and in   *)
(* app.formData, app.dataSource, app.memoContent; app.isLoading is           *)
(* UI.state.isLoading, app.toasts the toasts appended to the container,      *)
(* app.timers the pending setTimeout(() => UI.hideLoading(), 500), and       *)
(* app.runs the locals of each call of runAnalysis with the await it stands  *)
(* at. A call runs from one await to the next without interruption; calls    *)
(* started while another one waits interleave at the awaits.                 *)

MaxRuns == 2

PricePoint(ts, price) == [timestamp |-> ts, price |-> price]

OutputPoint(ts, output) == [timestamp |-> ts, output |-> output]

\* what DataSources.fetchPrices settles with: Null for a rejection, else the prices
Responses == {Null, Arr(<<>>), Arr(<<PricePoint(0, R(40)), PricePoint(HOUR, R(-5))>>)}

SamplePrices == <<PricePoint(0, R(40))>>

\* what generateSyntheticPVProfile returns for the date range of the run
Profiles ==
    {<<OutputPoint(2 * HOUR, R(10))>>,
     <<OutputPoint(0, R(10)), OutputPoint(HOUR, R(0))>>}

FormData(enableBattery, demoMode) ==
    [capacityMW |-> R(10), useFloor |-> FALSE, floorPrice |-> R(0),
     routeToMarket |-> "merchant", ppaPrice |-> R(50),
     enableBattery |-> enableBattery, batteryPower |-> R(10), batteryEnergy |-> R(20),
     efficiency |-> Rat(81, 100), oneCyclePerDay |-> TRUE, demoMode |-> demoMode]

Forms == {FormData(TRUE, TRUE), FormData(FALSE, FALSE)}

UNABLE_TO_FETCH == "Unable to fetch price data. Enable demo mode for sample data."

NO_ALIGNED_DATA == "No aligned data available. Please check the date range."

\* App.fetchPriceData once fetchPrices has settled with response
fetchPriceData(formData, response) ==
    IF response # Null /\ Len(response.array) > 0
    THEN [prices |-> response, source |-> "live", error |-> Null]
    ELSE IF formData.demoMode
    THEN [prices |-> Arr(SamplePrices), source |-> "demo", error |-> Null]
    ELSE [prices |-> Null, source |-> Null, error |-> [message |-> UNABLE_TO_FETCH]]

NoCalls ==
    [alignData |-> 0, calculateKPIs |-> 0, simulateBattery |-> 0,
     findRepresentativeWeeks |-> 0]

NewRun(formData) ==
    [pc |-> "fetchPriceData", formData |-> formData, priceData |-> Null,
     pvProfile |-> Null, alignedData |-> Null, hasBattery |-> FALSE,
     calls |-> NoCalls, outcome |-> "running"]

\* Mutant of AlignedEmpty: the empty alignment is not detected
AlignedEmpty_Never(alignedData) == FALSE

\* if (alignedData.length === 0)
AlignedEmpty(alignedData) == Len(alignedData) = 0

\* the options object passed to calculateKPIs
KpiOptions(formData) ==
    [floorPrice |-> IF formData.useFloor THEN formData.floorPrice ELSE Null,
     ppaPrice |-> IF formData.routeToMarket = "ppa" THEN formData.ppaPrice ELSE Null]

\* the configuration passed to simulateBattery
BatteryOptions(formData) ==
    [powerMW |-> formData.batteryPower, energyMWh |-> formData.batteryEnergy,
     efficiency |-> formData.efficiency, oneCyclePerDay |-> formData.oneCyclePerDay]

\* catch (error): UI.hideLoading(), UI.showToast(`Analysis failed: ...`, 'error')
Catch(a, r, message) ==
    [a EXCEPT !.isLoading = FALSE,
              !.toasts = Append(@, [type |-> "error",
                                    message |-> "Analysis failed: " \o message]),
              !.runs[r].pc = "done",
              !.runs[r].outcome = "error"]

IdleEngine ==
    /\ data = Null /\ options = Null /\ batteryConfig = Null /\ kpiError = Null
    /\ sim = Null /\ tzOffset = 0 /\ worker = Null

InitApp ==
    /\ prices = Null /\ pvProfile = Null /\ aligned = Null
    /\ kpis = Null /\ batteryResults = Null /\ representativeWeeks = Null
    /\ app = [formData |-> Null, dataSource |-> "live", memoContent |-> Null,
              isLoading |-> FALSE, toasts |-> <<>>, timers |-> 0, runs |-> <<>>]
    /\ IdleEngine

\* runAnalysis(formData) up to await this.fetchPriceData(formData)
RunAnalysis ==
    /\ Len(app.runs) < MaxRuns
    /\ \E formData \in Forms :
          app' = [app EXCEPT !.formData = formData, !.isLoading = TRUE,
                             !.runs = Append(@, NewRun(formData))]
    /\ UNCHANGED <<alignVars, computeVars, sim, tzOffset, worker>>

\* fetchPriceData has settled: the call fails, or it stores the prices and
\* calls getPVProfile
PriceDataSettled(r) ==
    /\ app.runs[r].pc = "fetchPriceData"
    /\ \E response \in Responses, profile \in Profiles :
          LET priceData == fetchPriceData(app.runs[r].formData, response)
          IN IF priceData.error # Null
             THEN /\ app' = Catch(app, r, priceData.error.message)
                  /\ prices' = prices
             ELSE /\ prices' = priceData.prices
                  /\ app' = [app EXCEPT !.dataSource = priceData.source,
                                        !.runs[r].priceData = priceData,
                                        !.runs[r].pvProfile = Arr(profile),
                                        !.runs[r].pc = "getPVProfile"]
    /\ UNCHANGED <<pvProfile, aligned, computeVars, sim, tzOffset, worker>>

\* getPVProfile has settled: steps 3 to 7 of the call, up to the await in
\* renderCharts, or up to the end of the catch block
ProfileSettled(r) ==
    /\ app.runs[r].pc = "getPVProfile"
    /\ LET run == app.runs[r]
           formData == run.formData
           alignedData == alignData(run.priceData.prices.array, run.pvProfile.array)
           called == [app EXCEPT !.runs[r].alignedData = Arr(alignedData),
                                 !.runs[r].calls.alignData = @ + 1]
       IN /\ pvProfile' = run.pvProfile
          /\ aligned' = Arr(alignedData)
          /\ IF AlignedEmpty(alignedData)
             THEN /\ app' = Catch(called, r, NO_ALIGNED_DATA)
                  /\ UNCHANGED <<kpis, batteryResults, representativeWeeks>>
             ELSE IF NoData(Arr(alignedData))
             THEN /\ app' = Catch([called EXCEPT !.runs[r].calls.calculateKPIs = @ + 1],
                                  r, NO_DATA)
                  /\ UNCHANGED <<kpis, batteryResults, representativeWeeks>>
             ELSE /\ kpis' = calculateKPIs(alignedData, formData.capacityMW,
                                           KpiOptions(formData))
                  /\ batteryResults' =
                        IF formData.enableBattery
                        THEN simulateBattery(alignedData, BatteryOptions(formData))
                        ELSE batteryResults
                  /\ representativeWeeks' = findRepresentativeWeeks(alignedData)
                  /\ app' = [called EXCEPT
                               !.runs[r].calls.calculateKPIs = @ + 1,
                               !.runs[r].calls.simulateBattery =
                                   IF formData.enableBattery THEN @ + 1 ELSE @,
                               !.runs[r].calls.findRepresentativeWeeks = @ + 1,
                               !.runs[r].hasBattery = formData.enableBattery,
                               !.runs[r].pc = "renderCharts"]
    /\ UNCHANGED <<prices, data, options, kpiError, batteryConfig, sim, tzOffset, worker>>

\* renderCharts has settled: generateMemo runs to its end (no endpoint is
\* configured, the memo is the template filled from window.AppState)
ChartsRendered(r) ==
    /\ app.runs[r].pc = "renderCharts"
    /\ app' = [app EXCEPT
                 !.memoContent =
                     [template |-> "fallback", dataSource |-> app.dataSource,
                      captureRate |-> kpis.captureRate,
                      hasBattery |-> app.formData.enableBattery /\ batteryResults # Null],
                 !.runs[r].pc = "generateMemo"]
    /\ UNCHANGED <<alignVars, computeVars, sim, tzOffset, worker>>

\* generateMemo has settled: setTimeout(() => UI.hideLoading(), 500) and the
\* success toast
MemoSettled(r) ==
    /\ app.runs[r].pc = "generateMemo"
    /\ LET source == IF app.runs[r].priceData.source = "demo"
                     THEN "sample data (demo mode)" ELSE "live Energy-Charts data"
       IN app' = [app EXCEPT
                    !.timers = @ + 1,
                    !.toasts = Append(@, [type |-> "success",
                                          message |-> "Analysis complete using " \o source]),
                    !.runs[r].pc = "done",
                    !.runs[r].outcome = "success"]
    /\ UNCHANGED <<alignVars, computeVars, sim, tzOffset, worker>>

\* the timeout set at the end of a successful call fires: UI.hideLoading()
HideLoadingTimeout ==
    /\ app.timers > 0
    /\ app' = [app EXCEPT !.timers = @ - 1, !.isLoading = FALSE]
    /\ UNCHANGED <<alignVars, computeVars, sim, tzOffset, worker>>

NextApp ==
    \/ RunAnalysis
    \/ \E r \in DOMAIN app.runs : PriceDataSettled(r)
    \/ \E r \in DOMAIN app.runs : ProfileSettled(r)
    \/ \E r \in DOMAIN app.runs : ChartsRendered(r)
    \/ \E r \in DOMAIN app.runs : MemoSettled(r)
    \/ HideLoadingTimeout

SpecApp == InitApp /\ [][NextApp]_vars

EmptyAlignment(run) == run.alignedData # Null /\ Len(run.alignedData.array) = 0

\* C5: a call of runAnalysis whose alignData returned an empty sequence has
\* ended in the error state: alignData was called once and calculateKPIs,
\* simulateBattery and findRepresentativeWeeks not at all; the step that ends
\* the call leaves the stored results as they were, clears the loading state
\* and shows the error toast.
C5_EmptyAlignmentEndsRun ==
    [][\A r \in DOMAIN app'.runs :
          EmptyAlignment(app'.runs[r]) =>
             /\ app'.runs[r].pc = "done"
             /\ app'.runs[r].outcome = "error"
             /\ app'.runs[r].calls = [NoCalls EXCEPT !.alignData = 1]
             /\ (app.runs[r].pc # "done" =>
                    /\ app'.isLoading = FALSE
                    /\ app'.toasts =
                          Append(app.toasts,
                                 [type |-> "error",
                                  message |-> "Analysis failed: No aligned data available. Please check the date range."])
                    /\ UNCHANGED <<kpis, batteryResults, representativeWeeks>>)]_vars

\* a call with the battery enabled has ended on an empty alignment while
\* another call is still waiting
C5_Witness ==
    \E r, q \in DOMAIN app.runs :
       /\ EmptyAlignment(app.runs[r])
       /\ app.runs[r].formData.enableBattery
       /\ Len(app.runs[r].pvProfile.array) > 0
       /\ app.runs[r].pc = "done"
       /\ app.runs[q].pc # "done"

-----------------------------------------------------------------------------
(* Properties of the battery dispatch *)

BatteryReturned == sim # Null /\ sim.phase = "returned"

\* on every day no discharge hour is dearer than any charge hour
NoSpread(d, cfg) ==
    \A k \in DOMAIN groupByDay(d) :
       \A c \in Range(chargeHours(groupByDay(d)[k], cfg)),
          h \in Range(dischargeHours(groupByDay(d)[k], cfg)) :
          RLe(h.price, c.price)

ChargePricesNonNegative(d, cfg) ==
    \A k \in DOMAIN groupByDay(d) :
       \A c \in Range(chargeHours(groupByDay(d)[k], cfg)) : RGe(c.price, R(0))

\* C11 as stated: without a profitable spread on any day totalUplift is 0.
C11_Original ==
    (BatteryReturned /\ NoSpread(data.array, batteryConfig)) =>
        batteryResults.totalUplift = R(0)

\* C11 amended: without a profitable spread on any day and with no charge
\* hour at a negative price, the dispatch is carried out all the same and
\* totalUplift is 0 or negative: the loss is kept, not clamped; totalUplift
\* is 0 when no day has a charge hour.
C11_NoSpreadNoGain ==
    (BatteryReturned /\ NoSpread(data.array, batteryConfig)
        /\ ChargePricesNonNegative(data.array, batteryConfig)) =>
        /\ RLe(batteryResults.totalUplift, R(0))
        /\ RLe(sim.totalUplift, R(0))
        /\ ((\A k \in DOMAIN sim.days : chargeHours(sim.days[k], batteryConfig) = <<>>) =>
               sim.totalUplift = R(0))

\* a day charged at a price and discharged at no higher a price, at a loss
C11_Witness ==
    /\ BatteryReturned /\ NoSpread(data.array, batteryConfig)
    /\ ChargePricesNonNegative(data.array, batteryConfig)
    /\ \E k \in DOMAIN sim.days : dischargeHours(sim.days[k], batteryConfig) # <<>>
    /\ RLt(batteryResults.totalUplift, R(0))

-----------------------------------------------------------------------------
(* Compute.groupByWeek and Compute.findRepresentativeWeeks called on hourly *)
(* series of several weeks; sim holds the windows groupByWeek returned.     *)

MaxWindows == 3

\* week patterns of three different price volatilities
WindowPatterns == {1, 3, 4}

WeekSeries ==
    {LongSeriesOf(pats, lastLen) :
        pats \in UNION {[1..w -> WindowPatterns] : w \in 1..MaxWindows},
        lastLen \in LastWeekLens}

InitWeeks ==
    /\ data \in {Arr(d) : d \in WeekSeries}
    /\ options = Null /\ batteryConfig = Null
    /\ kpis = Null /\ kpiError = Null /\ batteryResults = Null
    /\ representativeWeeks = Null
    /\ sim = Null
    /\ IdleAlign
    /\ app = Null
    /\ tzOffset = 0
    /\ worker = Null

\* a call of Compute.groupByWeek(data)
GroupByWeek ==
    /\ sim = Null
    /\ sim' = [weeks |-> groupByWeek(data.array)]
    /\ UNCHANGED <<alignVars, computeVars, app, tzOffset, worker>>

\* a call of Compute.findRepresentativeWeeks(data)
PickWeeks ==
    /\ representativeWeeks = Null
    /\ representativeWeeks' = findRepresentativeWeeks(data.array)
    /\ UNCHANGED <<alignVars, data, options, kpis, kpiError, batteryConfig,
                   batteryResults, sim, app, tzOffset, worker>>

NextWeeks == GroupByWeek \/ PickWeeks

SpecWeeks == InitWeeks /\ [][NextWeeks]_vars

\* C12: the windows of groupByWeek are the consecutive stretches of 168
\* records of the series in series order; the records left after the last
\* full window form a last window when they are at least 120 and are dropped
\* otherwise; no pick of findRepresentativeWeeks has fewer than 120 records.
C12_WeekWindows ==
    /\ sim # Null =>
          LET d == data.array
              whole == Len(d) \div 168
              left == Len(d) % 168
              n == Len(sim.weeks)
          IN /\ n = whole + (IF left >= 120 THEN 1 ELSE 0)
             /\ \A k \in 1..n :
                   /\ sim.weeks[k] =
                         SubSeq(d, 168 * (k - 1) + 1,
                                IF 168 * k <= Len(d) THEN 168 * k ELSE Len(d))
                   /\ Len(sim.weeks[k]) >= 120
                   /\ (k < n => Len(sim.weeks[k]) = 168)
    /\ representativeWeeks # Null =>
          \A w \in Picks(representativeWeeks) : Len(w.data) >= 120

\* two windows, the last one of exactly 120 records, and the picks made
C12_Witness ==
    /\ sim # Null /\ representativeWeeks # Null
    /\ Len(sim.weeks) = 2 /\ Len(sim.weeks[2]) = 120
    /\ representativeWeeks.typical # Null

\* the population variance of values: the mean of the squares less the square
\* of the mean
PopVariance(values) ==
    LET n == R(Len(values))
        mean == RDiv(RSum(values), n)
    IN RSub(RDiv(RSum([i \in DOMAIN values |-> RMul(values[i], values[i])]), n),
            RMul(mean, mean))

\* the windows of d, cut independently of groupByWeek
WindowsOf(d) ==
    LET n == (Len(d) \div 168) + (IF Len(d) % 168 >= 120 THEN 1 ELSE 0)
    IN [k \in 1..n |->
          SubSeq(d, 168 * (k - 1) + 1, IF 168 * k <= Len(d) THEN 168 * k ELSE Len(d))]

\* C13: for a series with at least one full week of 168 records, the volatile
\* pick is a window whose price standard deviation is the largest of all
\* windows and is at least that of the typical pick.
C13_VolatileIsMax ==
    (representativeWeeks # Null /\ Len(data.array) >= 168) =>
        LET windows == WindowsOf(data.array)
            volatile == representativeWeeks.volatile
            typical == representativeWeeks.typical
        IN /\ volatile # Null /\ typical # Null
           /\ \E k \in DOMAIN windows : volatile.data = windows[k]
           /\ volatile.volatility.sqrtOf = PopVariance(Prices(volatile.data))
           /\ \A k \in DOMAIN windows :
                 RLe(PopVariance(Prices(windows[k])), volatile.volatility.sqrtOf)
           /\ RLe(PopVariance(Prices(typical.data)), volatile.volatility.sqrtOf)

\* three windows, the most volatile one first in the series and the typical
\* pick less volatile than it
C13_Witness ==
    /\ representativeWeeks # Null
    /\ Len(WindowsOf(data.array)) = 3
    /\ representativeWeeks.volatile.startDate = 0
    /\ RLt(representativeWeeks.typical.volatility.sqrtOf,
           representativeWeeks.volatile.volatility.sqrtOf)
    /\ RGt(representativeWeeks.typical.volatility.sqrtOf, R(0))

-----------------------------------------------------------------------------
(* End-to-end examples *)

\* 48 hourly records, prices alternating 100, -5, output 10 in every record
AlternatingSeries ==
    [i \in 1..48 |->
        Record((i - 1) * 3600, IF i % 2 = 1 THEN R(100) ELSE R(-5), R(10))]

\* C14: for the 48 records with prices alternating 100, -5 and output 10,
\* calculateKPIs returns negativeHoursCount 24, negativePercentage 50,
\* capturePrice 47.5, baseloadAvg 47.5 and captureRate 100.
C14_AlternatingExample ==
    (kpis # Null /\ data.array = AlternatingSeries) =>
        /\ kpis.negativeHoursCount = 24
        /\ kpis.negativePercentage = R(50)
        /\ kpis.capturePrice = Rat(95, 2)
        /\ kpis.baseloadAvg = Rat(95, 2)
        /\ kpis.captureRate = R(100)

C14_Witness ==
    /\ kpis # Null /\ data.array = AlternatingSeries
    /\ kpis.dataPoints = 48 /\ kpis.totalProduction = R(480)

\* d is one day of 24 hourly records with one hour at price -10 and output 10,
\* one hour at price 50 and output 0 and 22 hours at price 0 and output 0
IsExampleDay(d) ==
    /\ Len(d) = 24
    /\ \A i \in 1..24 : d[i].timestamp = (i - 1) * 3600
    /\ Cardinality({i \in 1..24 : d[i].price = R(-10) /\ d[i].output = R(10)}) = 1
    /\ Cardinality({i \in 1..24 : d[i].price = R(50) /\ d[i].output = R(0)}) = 1
    /\ Cardinality({i \in 1..24 : d[i].price = R(0) /\ d[i].output = R(0)}) = 22

IsExampleBattery(cfg) ==
    /\ cfg.powerMW = R(10) /\ cfg.energyMWh = R(20)
    /\ cfg.efficiency = R(1) /\ cfg.oneCyclePerDay

\* C15: on the example day, with powerMW 10, energyMWh 20, efficiency 1 and
\* one cycle per day, the battery charges 10 MWh in the hour at price -10,
\* discharges them in the hour at price 50 and totalUplift is positive (600).
C15_BatteryExample ==
    (IsExampleDay(data.array) /\ IsExampleBattery(batteryConfig)) =>
        /\ InDay =>
              /\ Len(sim.chargeHours) = 1 /\ sim.chargeHours[1].price = R(-10)
              /\ sim.dischargeHours[1].price = R(50)
        /\ (InDay /\ sim.last = "charge") =>
              sim.st.soc = R(11) /\ sim.st.dayShifted = R(10) /\ sim.st.dayUplift = R(100)
        /\ (InDay /\ sim.last = "discharge") =>
              sim.st.soc = R(1) /\ sim.st.dayUplift = R(600)
        /\ BatteryReturned =>
              /\ RGt(batteryResults.totalUplift, R(0))
              /\ batteryResults.totalUplift = R(600)
              /\ batteryResults.totalShiftedMWh = R(10)

\* the example day with the dear hour before the cheap one, simulated to the end
C15_Witness ==
    /\ IsExampleDay(data.array) /\ IsExampleBattery(batteryConfig)
    /\ BatteryReturned
    /\ data.array[2].price = R(50) /\ data.array[12].price = R(-10)
    /\ batteryResults.totalUplift = R(600)

-----------------------------------------------------------------------------
(* The three consumers of the aligned series called in any order on the     *)
(* same array object: aligned is the series as alignData returned it, data  *)
(* the content of that array after the calls made so far, sim the calls in  *)
(* the order they were made.                                                *)
(* The in-place array operations of Compute all act on arrays created in    *)
(* the call: sort on Array.from(...) results (lines 112, 169), on the map   *)
(* result revenues (125), on the copies [...dayData] (279) and              *)
(* [...weekMetrics] (409, 417); reverse on a filter result (289); push on   *)
(* bins, dailyResults, the day arrays, currentWeek and weeks. The argument  *)
(* is read by for-of, forEach, map, filter and reduce and no record field   *)
(* is assigned.                                                             *)

\* the argument array after calculateKPIs(data, ...)
SeriesAfterKPIs(d) == d

\* Mutant of SeriesAfterBattery: the hours are sorted by price in the argument
SeriesAfterBattery_Sorted(d) == SortByKey(d, Prices(d))

\* the argument array after simulateBattery(data, ...)
SeriesAfterBattery(d) == d

\* the argument array after findRepresentativeWeeks(data)
SeriesAfterWeeks(d) == d

EnginePrices == {R(-5), R(10)}

EngineOutputs == {R(0), R(10)}

EngineSeries ==
    UNION {{[i \in DOMAIN Ascending(T) |->
                Record(Ascending(T)[i], f[Ascending(T)[i]][1], f[Ascending(T)[i]][2])] :
            f \in [T -> EnginePrices \X EngineOutputs]} :
           T \in {U \in SUBSET ComputeTimestamps :
                     Cardinality(U) >= 1 /\ Cardinality(U) <= MaxLen}}

\* one full week of hourly records following one pattern
EngineWeeklySeries == {LongSeriesOf(<<p>>, WEEK_HOURS) : p \in DOMAIN WeekPatterns}

InitEngine ==
    /\ aligned \in {Arr(d) : d \in EngineSeries \cup EngineWeeklySeries}
    /\ data = aligned
    /\ options = [floorPrice |-> Null, ppaPrice |-> Null]
    /\ batteryConfig = ComputeBattery
    /\ kpis = Null /\ kpiError = Null
    /\ batteryResults = Null
    /\ representativeWeeks = Null
    /\ prices = <<>> /\ pvProfile = <<>>
    /\ sim = <<>>
    /\ app = Null
    /\ tzOffset = 0
    /\ worker = Null

EngineKPIs ==
    /\ kpis = Null
    /\ kpis' = calculateKPIs(data.array, capacityMW, options)
    /\ data' = Arr(SeriesAfterKPIs(data.array))
    /\ sim' = Append(sim, "calculateKPIs")
    /\ UNCHANGED <<alignVars, options, kpiError, batteryConfig, batteryResults,
                   representativeWeeks, app, tzOffset, worker>>

EngineBattery ==
    /\ batteryResults = Null
    /\ batteryResults' = simulateBattery(data.array, batteryConfig)
    /\ data' = Arr(SeriesAfterBattery(data.array))
    /\ sim' = Append(sim, "simulateBattery")
    /\ UNCHANGED <<alignVars, options, kpis, kpiError, batteryConfig,
                   representativeWeeks, app, tzOffset, worker>>

EngineWeeks ==
    /\ representativeWeeks = Null
    /\ representativeWeeks' = findRepresentativeWeeks(data.array)
    /\ data' = Arr(SeriesAfterWeeks(data.array))
    /\ sim' = Append(sim, "findRepresentativeWeeks")
    /\ UNCHANGED <<alignVars, options, kpis, kpiError, batteryConfig,
                   batteryResults, app, tzOffset, worker>>

NextEngine == EngineKPIs \/ EngineBattery \/ EngineWeeks

SpecEngine == InitEngine /\ [][NextEngine]_vars

MaxRequests == 1

Str(pieces) == [str |-> pieces]

ALLOWED_ORIGINS ==
    << Str(<<"https://tibcva.github.io">>), Str(<<"http://localhost:3000">>),
       Str(<<"http://localhost:8080">>), Str(<<"http://127.0.0.1:5500">>) >>

\* String.prototype.startsWith
startsWith(string, prefix) ==
    /\ Len(prefix.str) <= Len(string.str)
    /\ SubSeq(string.str, 1, Len(prefix.str)) = prefix.str

\* allowed.replace(/\/$/, ''): a trailing slash is dropped
StripTrailingSlash(string) ==
    IF Len(string.str) > 0 /\ string.str[Len(string.str)] = "/"
    THEN Str(SubSeq(string.str, 1, Len(string.str) - 1))
    ELSE string

\* !origin: null and the empty string are falsy
Falsy(string) == string = Null \/ string = Str(<<>>)

isAllowedOrigin(origin) ==
    IF Falsy(origin) THEN FALSE
    ELSE \E k \in DOMAIN ALLOWED_ORIGINS :
            startsWith(origin, StripTrailingSlash(ALLOWED_ORIGINS[k]))

\* new Response(body, {status}) without CORS headers
PlainResponse(status) == [status |-> status, allowOrigin |-> Null, body |-> Null]

handleCORS(request) ==
    IF isAllowedOrigin(request.origin)
    THEN [status |-> 204, allowOrigin |-> request.origin, body |-> Null]
    ELSE PlainResponse(403)

jsonResponse(body, status, origin) ==
    [status |-> status,
     allowOrigin |-> IF Falsy(origin) THEN ALLOWED_ORIGINS[1] ELSE origin,
     body |-> body]

WorkerOrigins ==
    {Null, Str(<<>>), Str(<<"https://evil.example">>),
     Str(<<"https://evil.example/?", "https://tibcva.github.io">>)}
    \cup {ALLOWED_ORIGINS[k] : k \in DOMAIN ALLOWED_ORIGINS}
    \cup {Str(ALLOWED_ORIGINS[1].str \o <<".evil.com">>),
          Str(ALLOWED_ORIGINS[2].str \o <<"0">>)}

WorkerPaths == {"/api/insights", "/"}

\* the body of a POST: unparsable as JSON, without a prompt, with one
WorkerBodies == {"not json", "no prompt", "prompt"}

WorkerRequests ==
    [method : {"OPTIONS", "GET"}, origin : WorkerOrigins, pathname : WorkerPaths,
     body : {""}]
    \cup [method : {"POST"}, origin : WorkerOrigins, pathname : WorkerPaths,
          body : WorkerBodies]

\* what the call of the OpenAI API does
OpenAIOutcomes == {"throws", "not ok", "no content", "content"}

InitWorker ==
    /\ worker \in [env : [OPENAI_API_KEY : {Null, Str(<<"sk">>)}], handled : {<<>>}]
    /\ IdleAlign
    /\ data = Null /\ options = Null /\ batteryConfig = Null
    /\ kpis = Null /\ kpiError = Null
    /\ batteryResults = Null
    /\ representativeWeeks = Null
    /\ sim = Null
    /\ app = Null
    /\ tzOffset = 0

\* one request being handled: pc is where its handler waits
Handling(request, pc, response, insights, openaiCalls) ==
    [request |-> request, pc |-> pc, response |-> response,
     insights |-> insights, openaiCalls |-> openaiCalls]

\* fetch(request, env, ctx) up to its first await
FetchStart(request) ==
    IF request.method = "OPTIONS"
    THEN Handling(request, "done", handleCORS(request), FALSE, 0)
    ELSE IF request.method # "POST"
    THEN Handling(request, "done", PlainResponse(405), FALSE, 0)
    ELSE IF ~isAllowedOrigin(request.origin)
    THEN Handling(request, "done", PlainResponse(403), FALSE, 0)
    ELSE IF request.pathname = "/api/insights"
    THEN Handling(request, "json", Null, TRUE, 0)
    ELSE Handling(request, "done", PlainResponse(404), FALSE, 0)

Fetch(request) ==
    /\ Len(worker.handled) < MaxRequests
    /\ worker' = [worker EXCEPT !.handled = Append(@, FetchStart(request))]
    /\ UNCHANGED <<alignVars, computeVars, sim, app, tzOffset>>

FallbackBody(error) == [error |-> error, fallback |-> TRUE]

\* handleInsightsRequest after request.json() settles
AfterJson(h, env) ==
    LET origin == h.request.origin IN
    IF h.request.body = "not json"
    THEN [h EXCEPT !.pc = "done",
                   !.response = jsonResponse(FallbackBody("Internal server error"),
                                             500, origin)]
    ELSE IF h.request.body = "no prompt"
    THEN [h EXCEPT !.pc = "done",
                   !.response = jsonResponse([error |-> "Missing prompt"], 400, origin)]
    ELSE IF env.OPENAI_API_KEY = Null
    THEN [h EXCEPT !.pc = "done",
                   !.response =
                       jsonResponse(FallbackBody("Service temporarily unavailable"),
                                    503, origin)]
    ELSE [h EXCEPT !.pc = "openai", !.openaiCalls = @ + 1]

BodyParsed(i) ==
    /\ i \in DOMAIN worker.handled
    /\ worker.handled[i].pc = "json"
    /\ worker' = [worker EXCEPT !.handled[i] = AfterJson(@, worker.env)]
    /\ UNCHANGED <<alignVars, computeVars, sim, app, tzOffset>>

\* handleInsightsRequest after the call of the OpenAI API settles
AfterOpenAI(h, outcome) ==
    LET origin == h.request.origin IN
    [h EXCEPT !.pc = "done",
              !.response =
                  CASE outcome = "throws" ->
                           jsonResponse(FallbackBody("Internal server error"),
                                        500, origin)
                    [] outcome = "not ok" ->
                           jsonResponse(FallbackBody("AI service error"), 502, origin)
                    [] outcome = "no content" ->
                           jsonResponse(FallbackBody("Invalid AI response"),
                                        502, origin)
                    [] OTHER -> jsonResponse([memo |-> "content"], 200, origin)]

OpenAISettled(i) ==
    /\ i \in DOMAIN worker.handled
    /\ worker.handled[i].pc = "openai"
    /\ \E outcome \in OpenAIOutcomes :
          worker' = [worker EXCEPT !.handled[i] = AfterOpenAI(@, outcome)]
    /\ UNCHANGED <<alignVars, computeVars, sim, app, tzOffset>>

NextWorker ==
    \/ \E request \in WorkerRequests : Fetch(request)
    \/ \E i \in 1..MaxRequests : BodyParsed(i)
    \/ \E i \in 1..MaxRequests : OpenAISettled(i)

SpecWorker == InitWorker /\ [][NextWorker]_vars

\* the origin is, character for character, one of the allowed origins
ConfiguredOrigin(origin) ==
    \E k \in DOMAIN ALLOWED_ORIGINS : origin = ALLOWED_ORIGINS[k]

\* the preflight was answered 204, or the POST went to the insights handler
Accepted(h) ==
    \/ h.request.method = "OPTIONS" /\ h.response # Null /\ h.response.status = 204
    \/ h.request.method = "POST" /\ h.insights

\* C17: the worker accepts a request only if its Origin header is one of
\* the configured allowed origins; an OPTIONS or POST request with a
\* missing Origin or any other origin, one that merely begins with an
\* allowed origin included, is answered 403 and never reaches the OpenAI
\* call.
C17_OnlyAllowedOrigins ==
    \A i \in DOMAIN worker.handled :
        LET h == worker.handled[i] IN
        /\ Accepted(h) => ConfiguredOrigin(h.request.origin)
        /\ (h.request.method \in {"OPTIONS", "POST"}
              /\ ~ConfiguredOrigin(h.request.origin)) =>
                 /\ h.response = PlainResponse(403)
                 /\ h.openaiCalls = 0

\* a POST whose origin only begins with an allowed origin was forwarded,
\* reached the OpenAI call and was answered 200 with the memo
C17_Witness ==
    \E i \in DOMAIN worker.handled :
        LET h == worker.handled[i] IN
        /\ h.request.method = "POST"
        /\ ~ConfiguredOrigin(h.request.origin)
        /\ h.openaiCalls = 1
        /\ h.response # Null /\ h.response.status = 200

(***************************************************************************)
(* App.generateMemo.  It is called at the end of runAnalysis and by the    *)
(* refresh button of the results view, so window.AppState holds the        *)
(* results of an analysis when it runs; two calls may be in flight at      *)
(* once.  A text is a sequence of lines and a line a sequence of pieces    *)
(* ("#" is one piece); the empty string has no line.                       *)
(***************************************************************************)
MaxCalls == 2

Text(lines) == [lines |-> lines]

\* memo.replace(/^#(?!#)/gm, '###')
formatMemoResponse(apiResponse) ==
    Text([i \in DOMAIN apiResponse.lines |->
            LET line == apiResponse.lines[i] IN
            IF Len(line) >= 1 /\ line[1] = "#" /\ ~(Len(line) >= 2 /\ line[2] = "#")
            THEN <<"#", "#", "#">> \o Tail(line)
            ELSE line])

\* the template memo, by the fields of analysisData that shape it
generateFallbackMemo(analysisData) ==
    [template |-> "fallback", dataSource |-> analysisData.dataSource,
     captureRate |-> analysisData.kpis.captureRate,
     hasBattery |-> analysisData.hasBattery /\ analysisData.batteryResults # Null]

\* the analysisData object built from window.AppState
AnalysisData(a, k, b) ==
    [capacityMW |-> a.formData.capacityMW, kpis |-> k, batteryResults |-> b,
     hasBattery |-> a.formData.enableBattery /\ b # Null,
     dataSource |-> a.dataSource, pvSource |-> "synthetic"]

\* Mutant of ResponseOk: the status of the response is not looked at
ResponseOk_Any(response) == TRUE

\* response.ok
ResponseOk(response) == response.status >= 200 /\ response.status <= 299

MemoTexts ==
    {Text(<< <<"#", " Summary">>, <<"Capture rate is low.">> >>),
     Text(<< <<"#", "#", " Key Findings">> >>)}

\* what response.json() finds: a body that is not JSON, null, an object
\* without memo, the error body of the worker, and objects whose memo is
\* the empty string, a text or a number
MemoBodies ==
    {[invalid |-> TRUE], [json |-> Null], [json |-> [model |-> "gpt-4o-mini"]],
     [json |-> FallbackBody("AI service error")],
     [json |-> [memo |-> Text(<<>>)]], [json |-> [memo |-> [number |-> 5]]]}
    \cup {[json |-> [memo |-> t]] : t \in MemoTexts}

MemoResponses == [status : {200, 502}, body : MemoBodies]

\* if (data.memo): the body has a memo that is not '', 0, null or undefined
HasMemo(body) ==
    /\ "memo" \in DOMAIN body
    /\ body.memo # Text(<<>>)

IsText(value) == "lines" \in DOMAIN value

Endpoints == {Null, Str(<<>>), Str(<<"https://worker.example", "/api/insights">>)}

MemoKPIs == calculateKPIs(<<Record(0, R(40), R(4)), Record(HOUR, R(-5), R(4))>>,
                          capacityMW, [floorPrice |-> Null, ppaPrice |-> Null])

InitMemo ==
    /\ IdleAlign
    /\ IdleEngine
    /\ kpis = MemoKPIs
    /\ batteryResults \in {Null, [totalUplift |-> R(0)]}
    /\ representativeWeeks = Null
    /\ \E endpoint \in Endpoints, form \in Forms, source \in {"live", "demo"} :
          app = [INSIGHTS_ENDPOINT |-> endpoint, formData |-> form,
                 dataSource |-> source, memoContent |-> Null, shown |-> <<>>,
                 calls |-> <<>>]

\* window.AppState.memoContent = memo; UI.updateMemo(memo); the call ends
StoreMemo(a, c, memo) ==
    [a EXCEPT !.memoContent = memo, !.shown = Append(@, memo),
              !.calls[c].pc = "done", !.calls[c].stored = Append(@, memo)]

\* the statements after the if: the template memo
FallbackMemo(a, c) ==
    StoreMemo(a, c, generateFallbackMemo(a.calls[c].analysisData))

NewCall(analysisData, pc) ==
    [pc |-> pc, analysisData |-> analysisData, threw |-> FALSE,
     response |-> Null, stored |-> <<>>]

\* generateMemo() up to await fetch, or to its end when no endpoint is set
GenerateMemo ==
    /\ Len(app.calls) < MaxCalls
    /\ LET analysisData == AnalysisData(app, kpis, batteryResults)
           c == Len(app.calls) + 1
       IN IF Falsy(app.INSIGHTS_ENDPOINT)
          THEN app' = FallbackMemo([app EXCEPT !.calls =
                                       Append(@, NewCall(analysisData, "start"))], c)
          ELSE app' = [app EXCEPT !.calls = Append(@, NewCall(analysisData, "fetch"))]
    /\ UNCHANGED <<alignVars, computeVars, sim, tzOffset, worker>>

\* fetch rejects: catch, then the template memo
FetchThrows(c) ==
    /\ app.calls[c].pc = "fetch"
    /\ app' = FallbackMemo([app EXCEPT !.calls[c].threw = TRUE], c)
    /\ UNCHANGED <<alignVars, computeVars, sim, tzOffset, worker>>

\* fetch resolves with a response
FetchSettled(c) ==
    /\ app.calls[c].pc = "fetch"
    /\ \E response \in MemoResponses :
          LET a == [app EXCEPT !.calls[c].response = response] IN
          IF ResponseOk(response)
          THEN app' = [a EXCEPT !.calls[c].pc = "json"]
          ELSE app' = FallbackMemo(a, c)
    /\ UNCHANGED <<alignVars, computeVars, sim, tzOffset, worker>>

\* response.json() settles.  A body that is not JSON rejects; reading memo
\* of null and calling replace on a number throw a TypeError; all three are
\* caught and the template memo is used
JsonSettled(c) ==
    /\ app.calls[c].pc = "json"
    /\ LET body == app.calls[c].response.body
           threw == [app EXCEPT !.calls[c].threw = TRUE]
       IN IF "invalid" \in DOMAIN body \/ body.json = Null
          THEN app' = FallbackMemo(threw, c)
          ELSE IF ~HasMemo(body.json)
          THEN app' = FallbackMemo(app, c)
          ELSE IF ~IsText(body.json.memo)
          THEN app' = FallbackMemo(threw, c)
          ELSE app' = StoreMemo(app, c, formatMemoResponse(body.json.memo))
    /\ UNCHANGED <<alignVars, computeVars, sim, tzOffset, worker>>

NextMemo ==
    \/ GenerateMemo
    \/ \E c \in DOMAIN app.calls : FetchThrows(c)
    \/ \E c \in DOMAIN app.calls : FetchSettled(c)
    \/ \E c \in DOMAIN app.calls : JsonSettled(c)

SpecMemo == InitMemo /\ [][NextMemo]_vars

\* the endpoint is configured, the request came back with an OK status and
\* its body is an object with a non-empty memo text
AIMemoAvailable(call) ==
    /\ ~Falsy(app.INSIGHTS_ENDPOINT)
    /\ call.response # Null
    /\ call.response.status \in 200..299
    /\ "json" \in DOMAIN call.response.body
    /\ call.response.body.json # Null
    /\ "memo" \in DOMAIN call.response.body.json
    /\ IsText(call.response.body.json.memo)
    /\ call.response.body.json.memo.lines # <<>>

\* C18: a call of generateMemo that has ended stored and showed exactly one
\* memo, and a call still waiting none; the memo is the formatted AI memo
\* when the endpoint is configured, the request came back OK and its body
\* has a non-empty memo, and the template memo in every other case.
C18_OneMemoPerCall ==
    /\ \A c \in DOMAIN app.calls :
          LET call == app.calls[c] IN
          IF call.pc = "done"
          THEN /\ Len(call.stored) = 1
               /\ IF AIMemoAvailable(call)
                  THEN call.stored[1] = formatMemoResponse(call.response.body.json.memo)
                  ELSE call.stored[1] = generateFallbackMemo(call.analysisData)
          ELSE call.stored = <<>>
    /\ Len(app.shown) = Cardinality({c \in DOMAIN app.calls : app.calls[c].pc = "done"})
    /\ app.shown # <<>> => app.memoContent = app.shown[Len(app.shown)]
    /\ app.shown = <<>> => app.memoContent = Null

\* one call ended with the AI memo, its heading rewritten, and another with
\* the template memo after an error response of the worker
C18_Witness ==
    /\ \E c \in DOMAIN app.calls :
          /\ app.calls[c].pc = "done"
          /\ IsText(app.calls[c].stored[1])
          /\ app.calls[c].stored[1] # app.calls[c].response.body.json.memo
    /\ \E c \in DOMAIN app.calls :
          /\ app.calls[c].pc = "done"
          /\ app.calls[c].response # Null
          /\ app.calls[c].response.status = 502
          /\ app.calls[c].stored[1] = generateFallbackMemo(app.calls[c].analysisData)

-----------------------------------------------------------------------------
(* Properties of the hours simulateBattery charges and discharges in        *)

\* C19: the battery charges only from on-site PV within the power limit:
\* the hour of every charge step has output > 0, the PV energy the step
\* diverts (the growth of dayShifted) is at most min(output, powerMW), and
\* the energy a discharge step takes from the battery (the fall of soc) is
\* at most powerMW.
C19_ChargeFromPVWithinPower ==
    [][
        /\ sim.phase = "charge" =>
             LET hour == sim.chargeHours[sim.i]
                 diverted == RSub(sim'.st.dayShifted, sim.st.dayShifted)
             IN /\ RGt(hour.output, R(0))
                /\ RGe(diverted, R(0))
                /\ RLe(diverted, RMin(hour.output, batteryConfig.powerMW))
        /\ sim.phase = "discharge" =>
             LET discharged == RSub(sim.st.soc, sim'.st.soc)
             IN /\ RGe(discharged, R(0))
                /\ RLe(discharged, batteryConfig.powerMW)
    ]_vars

\* a day whose only charge hour produces more than powerMW: the step
\* diverted exactly powerMW, and the discharge step that followed emptied
\* the battery to minSOC
C19_Witness ==
    /\ sim # Null /\ sim.phase = "track" /\ sim.last = "discharge"
    /\ Len(sim.chargeHours) = 1
    /\ RGt(sim.chargeHours[1].output, batteryConfig.powerMW)
    /\ sim.st.dayShifted = batteryConfig.powerMW
    /\ sim.st.soc = minSOC(batteryConfig)

\* the number of hours of a day the battery may charge in, and discharge in
CycleHours(cfg) ==
    IF cfg.oneCyclePerDay
    THEN CHOOSE n \in 1..24 : /\ RGe(RMul(R(n), cfg.powerMW), cfg.energyMWh)
                              /\ RLt(RMul(R(n - 1), cfg.powerMW), cfg.energyMWh)
    ELSE 24

Smaller(m, n) == IF m < n THEN m ELSE n

\* C20: on every day the charge hours and the discharge hours are disjoint;
\* the charge hours are the N cheapest records with output > 0 and the
\* discharge hours the N most expensive of the records that are not charge
\* hours (all of them when there are fewer than N), where N is
\* ceil(energyMWh / powerMW) when oneCyclePerDay and 24 otherwise.
C20_ChargeAndDischargeHours ==
    InDay =>
        LET N == CycleHours(batteryConfig)
            day == Range(sim.days[sim.day])
            charge == Range(sim.chargeHours)
            discharge == Range(sim.dischargeHours)
            producing == {r \in day : RGt(r.output, R(0))}
            remaining == day \ charge
        IN /\ charge \cap discharge = {}
           /\ charge \subseteq producing
           /\ Len(sim.chargeHours) = Cardinality(charge)
           /\ Cardinality(charge) = Smaller(N, Cardinality(producing))
           /\ \A c \in charge : \A r \in producing \ charge : RLe(c.price, r.price)
           /\ discharge \subseteq remaining
           /\ Len(sim.dischargeHours) = Cardinality(discharge)
           /\ Cardinality(discharge) = Smaller(N, Cardinality(remaining))
           /\ \A d \in discharge : \A r \in remaining \ discharge : RGe(d.price, r.price)

\* a day of three records and N = 1: the later, cheaper of two producing
\* hours is the charge hour, the dearer one the discharge hour, and the
\* third record is in neither set
C20_Witness ==
    /\ sim # Null /\ InDay
    /\ Len(sim.days[sim.day]) = 3
    /\ Len(sim.chargeHours) = 1 /\ Len(sim.dischargeHours) = 1
    /\ sim.chargeHours[1] # sim.days[sim.day][1]
    /\ RGt(sim.dischargeHours[1].output, R(0))
    /\ RLt(sim.chargeHours[1].price, sim.dischargeHours[1].price)

\* C21: every day's dispatch starts with soc at 5% of energyMWh, whatever
\* soc the day before ended with, and the uplift and shifted energy recorded
\* for a day are those of a dispatch of that day's records alone, started
\* at 5% of energyMWh.
C21_DailyReset ==
    /\ (InDay /\ sim.last = "none") =>
          sim.st.soc = RMul(Rat(5, 100), batteryConfig.energyMWh)
    /\ sim # Null =>
          \A k \in DOMAIN sim.dailyResults :
              LET alone == DayEnd(sim.days[k], batteryConfig) IN
              /\ sim.dailyResults[k].uplift = alone.dayUplift
              /\ sim.dailyResults[k].shifted = alone.dayShifted

\* the second day has begun after a first day that ended with energy left
\* in the battery
C21_Witness ==
    /\ sim # Null /\ InDay /\ sim.last = "none" /\ sim.day = 2
    /\ RGt(DayEnd(sim.days[1], batteryConfig).soc, minSOC(batteryConfig))
    /\ Len(sim.chargeHours) = 1

-----------------------------------------------------------------------------
(* Properties of the picks of findRepresentativeWeeks *)

\* the number of windows that come before window k when the windows are
\* put in ascending order of price variance, equal ones in series order
VolatilityRank(windows, k) ==
    Cardinality({j \in DOMAIN windows :
                    LET vj == PopVariance(Prices(windows[j]))
                        vk == PopVariance(Prices(windows[k]))
                    IN RLt(vj, vk) \/ (vj = vk /\ j < k)})

\* the window of d that the typical pick holds stands at place `rank`
\* (counted from 0) of the ascending order of volatility
TypicalAtRank(d, rank) ==
    LET windows == WindowsOf(d)
    IN \E k \in DOMAIN windows :
          /\ representativeWeeks.typical.data = windows[k]
          /\ VolatilityRank(windows, k) = rank

\* C22 as stated: the typical pick stands at index floor(n/2) of the
\* ascending order of volatility, which for an even n is the lower of the
\* two middle windows.
C22_Original ==
    (representativeWeeks # Null /\ Len(WindowsOf(data.array)) > 0) =>
        LET n == Len(WindowsOf(data.array))
        IN /\ TypicalAtRank(data.array, n \div 2)
           /\ n % 2 = 0 => TypicalAtRank(data.array, (n \div 2) - 1)

\* C22, amended: the typical pick stands at index floor(n/2), counted from
\* 0, of the ascending order of volatility: the middle window for an odd n
\* and the upper of the two middle windows for an even n.
C22_TypicalIsUpperMiddle ==
    (representativeWeeks # Null /\ Len(WindowsOf(data.array)) > 0) =>
        LET n == Len(WindowsOf(data.array))
        IN /\ TypicalAtRank(data.array, n \div 2)
           /\ n % 2 = 0 => ~TypicalAtRank(data.array, (n \div 2) - 1)

\* two windows of different volatility: the typical pick is the more
\* volatile one
C22_Witness ==
    /\ representativeWeeks # Null
    /\ Len(WindowsOf(data.array)) = 2
    /\ representativeWeeks.typical = representativeWeeks.volatile
    /\ PopVariance(Prices(WindowsOf(data.array)[1]))
          # PopVariance(Prices(WindowsOf(data.array)[2]))

\* the number of records of a window with price < 0 and output > 0
NegativeCount(window) ==
    Cardinality({i \in DOMAIN window :
                    RLt(window[i].price, R(0)) /\ RGt(window[i].output, R(0))})

\* C23: the negative pick is a window with the largest number of records
\* having price < 0 and output > 0, and of the windows with that number it
\* is the earliest in the series.
C23_NegativeIsEarliestMax ==
    (representativeWeeks # Null /\ Len(WindowsOf(data.array)) > 0) =>
        LET windows == WindowsOf(data.array)
            negative == representativeWeeks.negative
        IN /\ negative # Null
           /\ negative.negativeHours = NegativeCount(negative.data)
           /\ \E k \in DOMAIN windows :
                 /\ negative.data = windows[k]
                 /\ \A j \in DOMAIN windows :
                       /\ NegativeCount(windows[j]) <= NegativeCount(windows[k])
                       /\ j < k => NegativeCount(windows[j]) < NegativeCount(windows[k])

\* three windows, the last two sharing the largest number of negative
\* hours: the pick is the second window
C23_Witness ==
    /\ representativeWeeks # Null
    /\ Len(WindowsOf(data.array)) = 3
    /\ NegativeCount(WindowsOf(data.array)[1]) < NegativeCount(WindowsOf(data.array)[2])
    /\ NegativeCount(WindowsOf(data.array)[2]) = NegativeCount(WindowsOf(data.array)[3])
    /\ representativeWeeks.negative.data = WindowsOf(data.array)[2]

-----------------------------------------------------------------------------
(* Properties of the price histogram *)

\* the bins of the histogram that hold price
BinsHolding(distribution, price) ==
    {j \in DOMAIN distribution :
        /\ RGe(price, distribution[j].min)
        /\ RLt(price, RAdd(distribution[j].min, R(10)))}

\* C24: every record's price falls in exactly one bin of the price
\* histogram, the bins start at multiples of 10, and the percentages of the
\* all-hours population add up to 100, as do those of the PV-hours
\* population when a record has output > 0 (up to the rounding of each bin
\* to one decimal), also when the largest price is a multiple of 10 and
\* when all prices are equal.
C24_EveryPriceInOneBin ==
    kpis # Null =>
        LET d == data.array
            distribution == kpis.priceDistribution
            bins == Len(distribution)
            allPct == RSum([j \in DOMAIN distribution |-> distribution[j].allPct])
            pvPct == RSum([j \in DOMAIN distribution |-> distribution[j].pvPct])
            Near100(x) == /\ RLe(RSub(R(100), Rat(bins, 20)), x)
                          /\ RLe(x, RAdd(R(100), Rat(bins, 20)))
        IN /\ \A i \in DOMAIN d :
                 Cardinality(BinsHolding(distribution, d[i].price)) = 1
           /\ Near100(allPct)
           /\ (\E i \in DOMAIN d : RGt(d[i].output, R(0))) => Near100(pvPct)

\* two producing records with prices 5.125 and 10: the histogram has the
\* single bin 0-10, the record priced 10 is in no bin and the bin holds 50%
\* of each population
C24_Witness ==
    /\ kpis # Null
    /\ Len(data.array) = 2
    /\ data.array[1].price = Rat(41, 8) /\ data.array[2].price = R(10)
    /\ RGt(data.array[1].output, R(0)) /\ RGt(data.array[2].output, R(0))
    /\ Len(kpis.priceDistribution) = 1
    /\ BinsHolding(kpis.priceDistribution, R(10)) = {}
    /\ kpis.priceDistribution[1].allPct = R(50)
    /\ kpis.priceDistribution[1].pvPct = R(50)

-----------------------------------------------------------------------------
(* Properties of the totals of simulateBattery *)

\* the UTC calendar days on which the series has a record
CalendarDays(d) == {d[i].timestamp \div (24 * 3600) : i \in DOMAIN d}

\* n is x rounded to the nearest integer, a half rounded up
IsRounded(n, x) ==
    /\ n.den = 1
    /\ RLe(RSub(n, Rat(1, 2)), x)
    /\ RLt(x, RAdd(n, Rat(1, 2)))

\* a charge step takes the price of the PV energy it diverts from the day's
\* uplift, a discharge step adds discharged * sqrt(efficiency) * price, and
\* the day's uplift starts at 0
UpliftSteps ==
    /\ sim.phase = "days" /\ sim'.phase # "returned" => sim'.st.dayUplift = R(0)
    /\ sim.phase = "charge" =>
          LET diverted == RSub(sim'.st.dayShifted, sim.st.dayShifted)
          IN sim'.st.dayUplift =
                RSub(sim.st.dayUplift, RMul(diverted, sim.chargeHours[sim.i].price))
    /\ sim.phase = "discharge" =>
          LET discharged == RSub(sim.st.soc, sim'.st.soc)
          IN sim'.st.dayUplift =
                RAdd(sim.st.dayUplift,
                     RMul(RMul(discharged, RSqrt(batteryConfig.efficiency)),
                          sim.dischargeHours[sim.i].price))
    /\ sim.phase = "track" =>
          sim'.dailyResults[Len(sim'.dailyResults)].uplift = sim.st.dayUplift

\* the result has one dailyResults entry per calendar day and its
\* totalUplift is the rounded sum of the daily uplifts, negative or not
UpliftTotals ==
    BatteryReturned =>
        LET daily == batteryResults.dailyResults
            total == RSum([k \in DOMAIN daily |-> daily[k].uplift])
        IN /\ Len(daily) = Cardinality(CalendarDays(data.array))
           /\ {daily[k].date \div (24 * 3600) : k \in DOMAIN daily}
                 = CalendarDays(data.array)
           /\ IsRounded(batteryResults.totalUplift, total)
           /\ RLt(total, Rat(-1, 2)) => RLt(batteryResults.totalUplift, R(0))

\* C25: simulateBattery returns one dailyResults entry per calendar day and
\* totalUplift is the rounded sum of the daily uplifts, a negative sum
\* included; a day's uplift is the sum over its discharge steps of
\* discharged * sqrt(efficiency) * price less the sum over its charge steps
\* of diverted PV energy * price.
C25_UpliftIsSumOfDays == []UpliftTotals /\ [][UpliftSteps]_vars

\* a series of two days returned with a negative totalUplift that differs
\* from the sum of the daily uplifts by the rounding
C25_Witness ==
    /\ BatteryReturned
    /\ Len(batteryResults.dailyResults) = 2
    /\ RLt(batteryResults.totalUplift, R(0))
    /\ batteryResults.totalUplift #
          RSum([k \in DOMAIN batteryResults.dailyResults |->
                   batteryResults.dailyResults[k].uplift])

-----------------------------------------------------------------------------
(* Properties of the revenues of calculateKPIs *)

\* the sum over the records of d of price * output, a price below floor
\* counted as floor
FlooredRevenue(d, floor) ==
    RSum([i \in DOMAIN d |->
            RMul(IF RLt(d[i].price, floor) THEN floor ELSE d[i].price, d[i].output)])

SpotRevenue(d) == RSum([i \in DOMAIN d |-> RMul(d[i].price, d[i].output)])

\* the revenue the merchantRevenue of the result is computed from
RevenueBasis(d, opts) ==
    IF opts.floorPrice # Null THEN FlooredRevenue(d, opts.floorPrice)
    ELSE SpotRevenue(d)

-----------------------------------------------------------------------------
(* The calendar of the engine: groupByDay keys a record on the date of     *)
(* toISOString (UTC), calculateMonthlyRevenues and calculateNegativeHeatmap *)
(* on getFullYear, getMonth and getHours (the time zone of the runtime).   *)
(* sim holds what each of the three returned.                              *)

\* the first hours of 1 January and the hours around the end of 31 January
CalendarTimestamps == {0, HOUR, 742 * HOUR, 743 * HOUR, 744 * HOUR}

CalendarOffsets == {-1, 0, 1}

\* producing records at a negative price, at most MaxLen of them
CalendarSeries ==
    {[i \in DOMAIN Ascending(T) |-> Record(Ascending(T)[i], R(-5), R(10))] :
        T \in {U \in SUBSET CalendarTimestamps :
                  Cardinality(U) >= 1 /\ Cardinality(U) <= MaxLen}}

InitCalendar ==
    /\ data \in {Arr(d) : d \in CalendarSeries}
    /\ tzOffset \in CalendarOffsets
    /\ sim = [days |-> Null, months |-> Null, heatmap |-> Null]
    /\ options = Null /\ batteryConfig = Null
    /\ kpis = Null /\ kpiError = Null /\ batteryResults = Null
    /\ representativeWeeks = Null
    /\ IdleAlign
    /\ app = Null
    /\ worker = Null

\* a call of Compute.groupByDay(data)
GroupByDay ==
    /\ sim.days = Null
    /\ sim' = [sim EXCEPT !.days = Arr(groupByDay(data.array))]
    /\ UNCHANGED <<alignVars, computeVars, app, tzOffset, worker>>

\* a call of Compute.calculateMonthlyRevenues(data)
MonthlyRevenues ==
    /\ sim.months = Null
    /\ sim' = [sim EXCEPT !.months = Arr(calculateMonthlyRevenues(data.array))]
    /\ UNCHANGED <<alignVars, computeVars, app, tzOffset, worker>>

\* a call of Compute.calculateNegativeHeatmap(data)
NegativeHeatmap ==
    /\ sim.heatmap = Null
    /\ sim' = [sim EXCEPT !.heatmap = calculateNegativeHeatmap(data.array)]
    /\ UNCHANGED <<alignVars, computeVars, app, tzOffset, worker>>

NextCalendar == GroupByDay \/ MonthlyRevenues \/ NegativeHeatmap

SpecCalendar == InitCalendar /\ [][NextCalendar]_vars

\* C27: the day of groupByDay and the month and hour of the monthly
\* aggregation and of the heatmap come from one time zone: the records of a
\* day group fall in one month of calculateMonthlyRevenues and in distinct
\* hours of one date, a day group starts a month of calculateMonthlyRevenues
\* only with its own month, and the heatmap counts each producing record in
\* the cell of the month and hour its day group gives it.
C27_OneCalendar ==
    /\ sim.days # Null =>
          \A k \in DOMAIN sim.days.array :
              LET day == sim.days.array[k] IN
              \A i, j \in DOMAIN day :
                  /\ MonthKey(day[i].date) = MonthKey(day[j].date)
                  /\ i # j => getHours(day[i].date) # getHours(day[j].date)
    /\ (sim.days # Null /\ sim.months # Null) =>
          {sim.months.array[m].month : m \in DOMAIN sim.months.array}
             = {<<ISODate(sim.days.array[k][1].date)[1],
                  ISODate(sim.days.array[k][1].date)[2]>> :
                   k \in DOMAIN sim.days.array}
    /\ (sim.days # Null /\ sim.heatmap # Null) =>
          \A k \in DOMAIN sim.days.array :
              LET day == sim.days.array[k] IN
              \A i \in DOMAIN day :
                  sim.heatmap.counts[ISODate(day[i].date)[2] - 1]
                                    [(day[i].timestamp \div HOUR) % 24] > 0

\* one hour ahead of UTC: the day group of 31 January holds a record that
\* calculateMonthlyRevenues counts in February and the heatmap in hour 0
C27_Witness ==
    /\ tzOffset = 1
    /\ sim.days # Null /\ sim.months # Null /\ sim.heatmap # Null
    /\ Len(sim.days.array) = 1 /\ Len(sim.days.array[1]) = 2
    /\ Len(sim.months.array) = 2
    /\ sim.heatmap.counts[1][0] = 1

-----------------------------------------------------------------------------
(* The day's dispatch replayed in the order of the hours *)

\* the change of soc in each hour of the charge loop, started with locals st
RECURSIVE ChargeLog(_, _, _)
ChargeLog(st, hours, cfg) ==
    IF hours = <<>> THEN <<>>
    ELSE LET next == ChargeStep(st, hours[1], cfg)
         IN <<[timestamp |-> hours[1].timestamp, delta |-> RSub(next.soc, st.soc)]>>
            \o ChargeLog(next, Tail(hours), cfg)

\* the change of soc in each hour of the discharge loop
RECURSIVE DischargeLog(_, _, _)
DischargeLog(st, hours, cfg) ==
    IF hours = <<>> THEN <<>>
    ELSE LET next == DischargeStep(st, hours[1], cfg)
         IN <<[timestamp |-> hours[1].timestamp, delta |-> RSub(next.soc, st.soc)]>>
            \o DischargeLog(next, Tail(hours), cfg)

\* the changes of soc of the day the walk stands in, in timestamp order
DayLog ==
    LET cfg == batteryConfig
        charged == ChargeWalk(DayStart(cfg), sim.chargeHours, cfg)
        log == ChargeLog(DayStart(cfg), sim.chargeHours, cfg)
               \o DischargeLog(charged, sim.dischargeHours, cfg)
    IN SortByKey(log, [k \in DOMAIN log |-> R(log[k].timestamp)])

\* soc after the first n changes of log, starting from minSOC
SocAfter(log, n) ==
    RAdd(minSOC(batteryConfig), RSum([k \in 1..n |-> log[k].delta]))

\* C28: when the amounts charged and discharged in the hours of a day are
\* applied in timestamp order, starting from 5% of energyMWh, soc stays
\* within 5% and 95% of energyMWh after every hour.
C28_ReplayWithinLimits ==
    (sim # Null /\ sim.phase = "track") =>
        LET log == DayLog IN
        /\ SocAfter(log, Len(log)) = sim.st.soc
        /\ \A n \in 0..Len(log) :
              /\ RGe(SocAfter(log, n), RMul(Rat(5, 100), batteryConfig.energyMWh))
              /\ RLe(SocAfter(log, n), RMul(Rat(95, 100), batteryConfig.energyMWh))

\* the example day with the price-50 hour before the price -10 hour: the 10
\* MWh discharged in the earlier hour are charged in the later one, and
\* replayed in order soc falls 10 MWh below the floor
C28_Witness ==
    /\ sim # Null /\ sim.phase = "track"
    /\ IsExampleDay(data.array) /\ IsExampleBattery(batteryConfig)
    /\ Len(sim.chargeHours) = 1
    /\ \E k \in DOMAIN sim.dischargeHours :
          sim.dischargeHours[k].timestamp < sim.chargeHours[1].timestamp
    /\ SocAfter(DayLog, 1) = RSub(minSOC(batteryConfig), R(10))

-----------------------------------------------------------------------------
(* negativeReduction as a percentage *)

\* the output of the records with price < 0 and output > 0
NegativeOutput(d) == RSum(Outputs(NegativeHours(d)))

\* the negative-price energy counted as avoided so far, the day under way included
AvoidedSoFar ==
    IF InDay THEN RAdd(sim.totalNegativeAvoided, sim.st.dayNegAvoided)
    ELSE sim.totalNegativeAvoided

\* C29: the negative-price energy counted as avoided never exceeds the total
\* output of the records with price < 0 and output > 0, each charge hour is
\* charged from by at most its own output, and the negativeReduction
\* returned lies between 0 and 100 and is 0 when nothing was avoided.
C29_NegativeReductionIsPercentage ==
    sim # Null =>
        /\ RGe(AvoidedSoFar, R(0))
        /\ RLe(AvoidedSoFar, NegativeOutput(data.array))
        /\ sim.phase = "charge" =>
              LET hour == sim.chargeHours[sim.i]
                  next == ChargeStep(sim.st, hour, batteryConfig)
              IN RLe(RSub(next.dayNegAvoided, sim.st.dayNegAvoided), hour.output)
        /\ sim.phase = "returned" =>
              /\ RGe(batteryResults.negativeReduction, R(0))
              /\ RLe(batteryResults.negativeReduction, R(100))
              /\ sim.totalNegativeAvoided = R(0) =>
                    batteryResults.negativeReduction = R(0)

\* a run that avoided part, but not all, of the negative-price output
C29_Witness ==
    /\ sim # Null /\ sim.phase = "returned"
    /\ RGt(sim.totalNegativeAvoided, R(0))
    /\ RLt(sim.totalNegativeAvoided, NegativeOutput(data.array))
    /\ RGt(batteryResults.negativeReduction, R(0))
    /\ RLt(batteryResults.negativeReduction, R(100))

-----------------------------------------------------------------------------
(* window.AppState between runs *)

\* no call of runAnalysis stands at an await
NoRunInProgress == \A r \in DOMAIN app.runs : app.runs[r].pc = "done"

\* the fields of window.AppState that UI.exportCSV and the memo read are
\* those the call run computed and stored
StateOfRun(run) ==
    /\ run.outcome = "success"
    /\ app.formData = run.formData
    /\ aligned = run.alignedData
    /\ kpis = calculateKPIs(run.alignedData.array, run.formData.capacityMW,
                            KpiOptions(run.formData))
    /\ representativeWeeks = findRepresentativeWeeks(run.alignedData.array)
    /\ batteryResults =
          IF run.formData.enableBattery
          THEN simulateBattery(run.alignedData.array, BatteryOptions(run.formData))
          ELSE Null

\* C30: whenever no call of runAnalysis is in progress and window.AppState
\* holds KPIs, formData, alignedData, kpis, batteryResults and
\* representativeWeeks are those of one and the same call, and batteryResults
\* is null if that call had enableBattery = false.
C30_AppStateFromOneRun ==
    (NoRunInProgress /\ kpis # Null) =>
        \E r \in DOMAIN app.runs : StateOfRun(app.runs[r])

\* a call with the battery enabled succeeded, then a call with the battery
\* disabled succeeded: window.AppState holds the form data and KPIs of the
\* second call and the battery results of the first
C30_Witness ==
    /\ NoRunInProgress /\ Len(app.runs) = 2
    /\ app.runs[1].outcome = "success" /\ app.runs[1].formData.enableBattery
    /\ app.runs[2].outcome = "success" /\ ~app.runs[2].formData.enableBattery
    /\ app.formData = app.runs[2].formData
    /\ kpis = calculateKPIs(app.runs[2].alignedData.array,
                            app.runs[2].formData.capacityMW,
                            KpiOptions(app.runs[2].formData))
    /\ batteryResults # Null
    /\ batteryResults = simulateBattery(app.runs[1].alignedData.array,
                                        BatteryOptions(app.runs[1].formData))

====
